---------------------------- MODULE Spec2Model ----------------------------
(***************************************************************************)
(* Lab-report text pipeline of the repository (server.js and its earlier   *)
(* snapshots part_000 .. part_002): the positioned-fragment reassembler    *)
(* (extractTextFromPdf), the noise filters (cleanLabText,                  *)
(* removeRepeatingHeaders) and the /api/analyze handler around them.       *)
(*                                                                         *)
(* A JavaScript string is a sequence of one-character strings, so that     *)
(* trim, split, join, replace and the regular expressions of the source    *)
(* are computed character by character.                                    *)
(***************************************************************************)
EXTENDS Integers, Sequences, FiniteSets, TLC

VARIABLES
    pages,          \* extractTextFromPdf: let pages = []
    currentPage,    \* extractTextFromPdf: let currentPage = []
    lastY,          \* extractTextFromPdf: let lastY = null   (<<>> is null, <<q>> is q)
    promise,        \* the Promise awaited by extractTextFromPdf
    extractResult,  \* what extractTextFromPdf returned or threw
    lastItem,       \* the (err, item) pair the parser callback was last called with,
                    \* with what the call before it found (was: lastY, after: the item type)
    firstSignal,    \* history: the first error or end-of-stream the parser signalled
    nItems,         \* number of callback invocations so far
    lineBand,       \* history: <<lowest, highest>> Math.round(item.y * 10) among the
                    \* fragments of the line being built (<<>> when the page has none)
    cleanIn,        \* cleanLabText: the argument rawText
    cleanOut,       \* cleanLabText(cleanIn)
    cleanOut2,      \* cleanLabText(cleanOut)
    cleanPc,        \* how many times cleanLabText has been applied
    build,          \* /api/analyze: the source file the handler is of
    anReq,          \* /api/analyze: the request (req.file, req.body.text)
    anPc,           \* /api/analyze: where the handler stands
    textInput,      \* /api/analyze: let textInput   (<<>> is undefined, <<t>> is t)
    pdfBuffer,      \* /api/analyze: let pdfBuffer   (FALSE is null)
    summarizerCalls, \* the lab texts sent to openai.chat.completions.create, in order
    renderCalls,    \* number of calls of appendResultsToPdf
    responses,      \* the responses sent on res, in order
    thrown,         \* /api/analyze: the call whose error the catch block caught (<<>> none)
    dateStr,        \* appendResultsToPdf: the date text drawn on the annotation page
                    \* (<<>> before it is drawn)
    hdrIn,          \* removeRepeatingHeaders: the argument pagesText
    hdrWords,       \* removeRepeatingHeaders: the words array of each page after the slice
    hdrCleaned,     \* removeRepeatingHeaders: cleanedPages
    hdrOut,         \* removeRepeatingHeaders: the text returned   (<<>> before, <<t>> is t)
    hdrPc,          \* removeRepeatingHeaders: "returned" at the early return, "stripped"
                    \* when it returned after the positional and the pattern step
    coDocs,         \* two concurrent extractTextFromPdf calls: the items of each one's PDF
    coFed,          \* how many of its items each call's callback has been given
    coCalls,        \* what each call's callback closes over: pages, currentPage, lastY
                    \* and the promise of that call
    coResults,      \* what each call returned or threw
    coOverlap,      \* history: a callback ran while the other call was in mid-stream
    rgValue,        \* systemPrompt rules: the patient's value as written on the report
    rgRef,          \* systemPrompt rules: the reference interval as written on the report
    rgStatus,       \* systemPrompt rules: "EN DEHORS" or "DANS" once decided, "" before
    rdBuild,        \* appendResultsToPdf: the renderer, by the source it is of
    rdLines,        \* appendResultsToPdf: const lines = resultsText.split('\n')
    rdNext,         \* appendResultsToPdf: the number of lines the loop has been through
    rdY,            \* appendResultsToPdf: the vertical cursor (y, currentY)
    rdPage,         \* appendResultsToPdf: which added page the variable page refers to
    rdPageCount,    \* appendResultsToPdf: how many pages pdfDoc.addPage() has added
    rdSection,      \* appendResultsToPdf: sectionNum, inAbnormal, inNormal, inRecap
    rdShapes,       \* the box and icon drawn for each line, in drawing order
    rdRows,         \* the text rows drawn by page.drawText in the loop, in drawing order
    rdPc            \* appendResultsToPdf: "loop", "done", or "thrown" after a TypeError

extractVars ==
    <<pages, currentPage, lastY, promise, extractResult, lastItem, firstSignal, nItems,
      lineBand>>
cleanVars == <<cleanIn, cleanOut, cleanOut2, cleanPc>>
analyzeVars ==
    <<build, anReq, anPc, textInput, pdfBuffer, summarizerCalls, renderCalls, responses, thrown,
      dateStr>>
hdrVars == <<hdrIn, hdrWords, hdrCleaned, hdrOut, hdrPc>>
coVars == <<coDocs, coFed, coCalls, coResults, coOverlap>>
rangeVars == <<rgValue, rgRef, rgStatus>>
renderVars ==
    <<rdBuild, rdLines, rdNext, rdY, rdPage, rdPageCount, rdSection, rdShapes, rdRows, rdPc>>
vars == <<extractVars, cleanVars, analyzeVars, hdrVars, coVars, rangeVars, renderVars>>

---------------------------------------------------------------------------
(* Characters and JavaScript string primitives                             *)

\* The white space of JavaScript's \s and String.prototype.trim that the inputs use.
WhiteSpace == {" ", "\t", "\n", "\r"}

Digits == {"0", "1", "2", "3", "4", "5", "6", "7", "8", "9"}

UpperAZ == {"A", "B", "C", "D", "E", "F", "G", "H", "I", "J", "K", "L", "M", "N", "O", "P",
    "Q", "R", "S", "T", "U", "V", "W", "X", "Y", "Z"}

LowerLetters == <<"a", "b", "c", "d", "e", "f", "g", "h", "i", "j", "k", "l", "m", "n", "o",
    "p", "q", "r", "s", "t", "u", "v", "w", "x", "y", "z", "é", "è", "à">>

UpperLetters == <<"A", "B", "C", "D", "E", "F", "G", "H", "I", "J", "K", "L", "M", "N", "O",
    "P", "Q", "R", "S", "T", "U", "V", "W", "X", "Y", "Z", "É", "È", "À">>

\* the upper case of every lower-case letter, as a table
UpperOf ==
    [c \in {LowerLetters[i] : i \in 1..Len(LowerLetters)} |->
        UpperLetters[CHOOSE i \in 1..Len(LowerLetters) : LowerLetters[i] = c]]

\* Canonicalize of a case-insensitive RegExp: the character's upper case.
ToUpper(c) == IF c \in DOMAIN UpperOf THEN UpperOf[c] ELSE c

IsWS(c) == c \in WhiteSpace

IsDigit(c) == c \in Digits

\* s without its leading white space
DropWS(s) ==
    LET solid == {i \in 1..Len(s) : ~IsWS(s[i])}
    IN  IF solid = {} THEN <<>>
        ELSE SubSeq(s, CHOOSE i \in solid : \A j \in solid : i <= j, Len(s))

\* s without its trailing white space
DropTrailingWS(s) ==
    LET solid == {i \in 1..Len(s) : ~IsWS(s[i])}
    IN  IF solid = {} THEN <<>>
        ELSE SubSeq(s, 1, CHOOSE i \in solid : \A j \in solid : j <= i)

\* String.prototype.trim
Trim(s) == DropTrailingWS(DropWS(s))

\* index of the first occurrence of the separator sep in s at or after 1, 0 when none
IndexOf(s, sep) ==
    LET hits == {i \in 1..(Len(s) - Len(sep) + 1) : SubSeq(s, i, i + Len(sep) - 1) = sep}
    IN  IF hits = {} THEN 0 ELSE CHOOSE i \in hits : \A j \in hits : i <= j

RECURSIVE Split(_, _)
\* String.prototype.split with a non-empty string separator
Split(s, sep) ==
    LET i == IndexOf(s, sep)
    IN  IF i = 0 THEN <<s>>
        ELSE <<SubSeq(s, 1, i - 1)>> \o Split(SubSeq(s, i + Len(sep), Len(s)), sep)

RECURSIVE Join(_, _)
\* Array.prototype.join
Join(parts, sep) ==
    IF parts = <<>> THEN <<>>
    ELSE IF Len(parts) = 1 THEN parts[1]
    ELSE parts[1] \o sep \o Join(Tail(parts), sep)

\* String.prototype.replace(/c/g, d) for single characters c and d
ReplaceChar(s, c, d) == [i \in 1..Len(s) |-> IF s[i] = c THEN d ELSE s[i]]

\* String.prototype.replace(/\s+/g, ' '): every run of white space becomes one space
CollapseWS(s) ==
    LET first == SelectSeq([i \in 1..Len(s) |-> i],
                           LAMBDA i : ~IsWS(s[i]) \/ i = 1 \/ ~IsWS(s[i - 1]))
    IN  [k \in 1..Len(first) |-> IF IsWS(s[first[k]]) THEN " " ELSE s[first[k]]]

DigitChars == <<"0", "1", "2", "3", "4", "5", "6", "7", "8", "9">>

DigitVal(c) == (CHOOSE n \in 1..10 : DigitChars[n] = c) - 1

RECURSIVE IntOf(_)
\* the number a run of digits denotes; 0 for the empty run
IntOf(ds) == IF ds = <<>> THEN 0 ELSE IntOf(SubSeq(ds, 1, Len(ds) - 1)) * 10 + DigitVal(ds[Len(ds)])

StartsWith(s, lit) == Len(s) >= Len(lit) /\ SubSeq(s, 1, Len(lit)) = lit

\* a literal prefix under the i flag; LIT is written in upper case
StartsWithCI(s, LIT) == Len(s) >= Len(LIT) /\ \A i \in 1..Len(LIT) : ToUpper(s[i]) = LIT[i]

NL == <<"\n">>

NLNL == <<"\n", "\n">>

---------------------------------------------------------------------------
(* cleanLabText                                                            *)

LitLaboratoire == <<"L", "A", "B", "O", "R", "A", "T", "O", "I", "R", "E", " ", "D", "E", " ",
    "B", "I", "O", "L", "O", "G", "I", "E", " ", "M", "É", "D", "I", "C", "A", "L", "E">>
LitLBM == <<"L", "B", "M", " ">>
LitSELAS == <<"S", "E", "L", "A", "S", " ">>
LitBiologiste == <<"B", "I", "O", "L", "O", "G", "I", "S", "T", "E">>
LitPage == <<"P", "a", "g", "e", " ">>
LitPreleve == <<"P", "r", "é", "l", "e", "v", "é", " ", "l", "e", " ">>
LitEdite == <<"É", "d", "i", "t", "é", " ", "l", "e", " ">>
LitWww == <<"W", "W", "W", ".">>
LitTel == <<"T", "É", "L">>
LitFax == <<"F", "A", "X">>
LitLesInformations == <<"L", "e", "s", " ", "i", "n", "f", "o", "r", "m", "a", "t", "i", "o",
    "n", "s", " ", "c", "o", "n", "t", "e", "n", "u", "e", "s", " ", "d", "a", "n", "s", " ",
    "c", "e", " ", "d", "o", "c", "u", "m", "e", "n", "t">>
LitDocumentConfidentiel == <<"D", "o", "c", "u", "m", "e", "n", "t", " ", "c", "o", "n", "f",
    "i", "d", "e", "n", "t", "i", "e", "l">>

\* /^Page \d+/
MatchPage(line) ==
    StartsWith(line, LitPage) /\ Len(line) > Len(LitPage) /\ IsDigit(line[Len(LitPage) + 1])

\* /^Tél\s*:/i and /^Fax\s*:/i : the label, any white space, a colon
MatchLabelColon(line, LIT) ==
    /\ StartsWithCI(line, LIT)
    /\ LET rest == DropWS(SubSeq(line, Len(LIT) + 1, Len(line)))
       IN  rest # <<>> /\ Head(rest) = ":"

\* /^\d{5}\s+[A-Z]/ : postal code + city
MatchPostal(line) ==
    /\ Len(line) >= 7
    /\ \A i \in 1..5 : IsDigit(line[i])
    /\ IsWS(line[6])
    /\ LET rest == DropWS(SubSeq(line, 6, Len(line)))
       IN  rest # <<>> /\ Head(rest) \in UpperAZ

\* junkPatterns.some(p => p.test(line))
IsJunk(line) ==
    \/ StartsWithCI(line, LitLaboratoire)
    \/ StartsWithCI(line, LitLBM)
    \/ StartsWithCI(line, LitSELAS)
    \/ StartsWithCI(line, LitBiologiste)
    \/ MatchPage(line)
    \/ StartsWith(line, LitPreleve)
    \/ StartsWith(line, LitEdite)
    \/ StartsWithCI(line, LitWww)
    \/ MatchLabelColon(line, LitTel)
    \/ MatchLabelColon(line, LitFax)
    \/ MatchPostal(line)
    \/ StartsWith(line, LitLesInformations)
    \/ StartsWith(line, LitDocumentConfidentiel)

NonEmpty(l) == Len(l) > 0

NotJunk(line) == ~IsJunk(line)

\* rawText.split('\n').map(l => l.trim()).filter(l => l.length > 0)
TrimmedLines(rawText) ==
    LET lines == Split(rawText, NL)
    IN  SelectSeq([i \in 1..Len(lines) |-> Trim(lines[i])], NonEmpty)

\* the "font/OCR" fix applied to every kept line
FixLine(line) == Trim(CollapseWS(ReplaceChar(ReplaceChar(line, "O", "0"), "l", "1")))

\* mutant of cleanLabText: the junk filter left out
cleanLabTextKeepsJunk(rawText) ==
    LET lines == TrimmedLines(rawText)
    IN  Join([i \in 1..Len(lines) |-> FixLine(lines[i])], NL)

\* mutant of cleanLabText: the kept lines joined by a space
cleanLabTextJoinsWithSpace(rawText) ==
    LET lines == SelectSeq(TrimmedLines(rawText), NotJunk)
    IN  Join([i \in 1..Len(lines) |-> FixLine(lines[i])], <<" ">>)

cleanLabText(rawText) ==
    LET lines == SelectSeq(TrimmedLines(rawText), NotJunk)
    IN  Join([i \in 1..Len(lines) |-> FixLine(lines[i])], NL)

---------------------------------------------------------------------------
(* extractTextFromPdf: the parser callback, item by item                   *)

MaxItems == 5

\* item.y in hundredths of a unit: 0.00, 0.35 and 0.45
YVals == {0, 35, 45}

FragNa == <<" ", "N", "a">>
FragBlank == <<" ">>
FragPage1 == <<"P", "a", "g", "e", " ", "1">>

\* item.text of the fragments the parser delivers
FragTexts == {FragNa, FragBlank, FragPage1}

\* err.message of the errors the parser reports
ErrMessages == {"bad XRef entry", "undefined"}

ExtractionFailedPrefix == "PDF extraction failed: "

\* Math.round(item.y * 10), item.y given in hundredths: halves round up
RoundY(yh) == (yh + 5) \div 10

Abs(n) == IF n < 0 THEN 0 - n ELSE n

\* the line-break threshold in "Math.abs(y - lastY) > 4"
LineGap == 4

Last(s) == s[Len(s)]

\* mutant of FlushPage: a page without lines is pushed too
FlushPageAlways(ps, cp) == Append(ps, Join(cp, NL))

\* if (currentPage.length) pages.push(currentPage.join('\n'))
FlushPage(ps, cp) == IF Len(cp) > 0 THEN Append(ps, Join(cp, NL)) ELSE ps

\* mutant of BreakLine: the threshold compared with >= instead of >
BreakLineAtThreshold(cp, ly, y) ==
    IF ly # <<>> /\ Abs(y - ly[1]) >= LineGap THEN Append(cp, <<>>) ELSE cp

\* if (lastY !== null && Math.abs(y - lastY) > 4) currentPage.push('')
BreakLine(cp, ly, y) ==
    IF ly # <<>> /\ Abs(y - ly[1]) > LineGap THEN Append(cp, <<>>) ELSE cp

\* const lastLine = currentPage[currentPage.length - 1] || ''; then push or append
PlaceText(cp, text) ==
    LET lastLine == IF cp = <<>> THEN <<>> ELSE Last(cp)
    IN  IF lastLine = <<>>
        THEN Append(cp, Trim(text))
        ELSE [cp EXCEPT ![Len(cp)] = @ \o <<" ">> \o Trim(text)]

\* mutant of Settle: the last call decides
SettleLast(p, outcome) == outcome

\* resolve(value) and reject(reason): only the first call settles the promise
Settle(p, outcome) == IF p.state = "pending" THEN outcome ELSE p

\* rawText.split('\n\n').filter(p => p.trim()).length || 1
PageCount(rawText) ==
    LET n == Len(SelectSeq(Split(rawText, NLNL), LAMBDA p : Trim(p) # <<>>))
    IN  IF n = 0 THEN 1 ELSE n

\* history: the signal that came first stays recorded
FirstOf(first, signal) == IF first.type = "none" THEN signal ELSE first

\* the reassembly state of one extractTextFromPdf call, before the first item
NewReassembly ==
    [pages |-> <<>>, currentPage |-> <<>>, lastY |-> <<>>, promise |-> [state |-> "pending"]]

\* mutant of Callback: a page item flushes the page but resets neither the line
\* list nor lastY
CallbackKeepsLine(st, item) ==
    IF item.type = "err"
    THEN [st EXCEPT !.promise = Settle(@, [state |-> "rejected", message |-> item.message])]
    ELSE IF item.type = "end"
    THEN LET ps == FlushPage(st.pages, st.currentPage)
         IN  [st EXCEPT !.pages = ps,
                        !.promise = Settle(@, [state |-> "resolved", value |-> Join(ps, NLNL)])]
    ELSE IF item.type = "page"
    THEN [st EXCEPT !.pages = FlushPage(st.pages, st.currentPage)]
    ELSE IF item.type = "text" /\ item.text # <<>>
    THEN [st EXCEPT !.currentPage = PlaceText(BreakLine(@, st.lastY, RoundY(item.y)), item.text),
                    !.lastY = <<RoundY(item.y)>>]
    ELSE st

\* mutant of Callback: end-of-stream resolves without flushing the page being built
CallbackEndWithoutFlush(st, item) ==
    IF item.type = "err"
    THEN [st EXCEPT !.promise = Settle(@, [state |-> "rejected", message |-> item.message])]
    ELSE IF item.type = "end"
    THEN [st EXCEPT !.promise = Settle(@, [state |-> "resolved", value |-> Join(st.pages, NLNL)])]
    ELSE IF item.type = "page"
    THEN [st EXCEPT !.pages = FlushPage(st.pages, st.currentPage),
                    !.currentPage = <<>>,
                    !.lastY = <<>>]
    ELSE IF item.type = "text" /\ item.text # <<>>
    THEN [st EXCEPT !.currentPage = PlaceText(BreakLine(@, st.lastY, RoundY(item.y)), item.text),
                    !.lastY = <<RoundY(item.y)>>]
    ELSE st

\* (err, item) => { ... } : one invocation of the parser callback
Callback(st, item) ==
    IF item.type = "err"
    THEN [st EXCEPT !.promise = Settle(@, [state |-> "rejected", message |-> item.message])]
    ELSE IF item.type = "end"
    THEN LET ps == FlushPage(st.pages, st.currentPage)
         IN  [st EXCEPT !.pages = ps,
                        !.promise = Settle(@, [state |-> "resolved", value |-> Join(ps, NLNL)])]
    ELSE IF item.type = "page"
    THEN [st EXCEPT !.pages = FlushPage(st.pages, st.currentPage),
                    !.currentPage = <<>>,
                    !.lastY = <<>>]
    ELSE IF item.type = "text" /\ item.text # <<>>
    THEN [st EXCEPT !.currentPage = PlaceText(BreakLine(@, st.lastY, RoundY(item.y)), item.text),
                    !.lastY = <<RoundY(item.y)>>]
    ELSE st

\* what extractTextFromPdf returns or throws once the awaited promise p is settled
ExtractOutcome(p) ==
    IF p.state = "resolved"
    THEN [kind |-> "ok", text |-> Trim(cleanLabText(p.value)), pages |-> PageCount(p.value)]
    ELSE IF p.state = "rejected"
    THEN [kind |-> "error", message |-> ExtractionFailedPrefix \o p.message]
    ELSE [kind |-> "none"]

\* history: the band of the line a fragment at q has been placed on, when cp became
\* cp2: the fragment widens the band of the line it was appended to, and is alone in
\* the band of a line it began
BandAfter(band, cp, cp2, q) ==
    IF Len(cp2) = Len(cp) /\ band # <<>>
    THEN <<IF band[1] < q THEN band[1] ELSE q, IF band[2] > q THEN band[2] ELSE q>>
    ELSE <<q, q>>

\* the parser calls the callback with one more item
Deliver(item) ==
    LET st == Callback([pages |-> pages, currentPage |-> currentPage,
                        lastY |-> lastY, promise |-> promise], item)
    IN  /\ nItems < MaxItems
        /\ lineBand' = IF item.type = "page" THEN <<>>
                       ELSE IF item.type = "text" /\ item.text # <<>>
                       THEN BandAfter(lineBand, currentPage, st.currentPage, RoundY(item.y))
                       ELSE lineBand
        /\ pages' = st.pages
        /\ currentPage' = st.currentPage
        /\ lastY' = st.lastY
        /\ promise' = st.promise
        /\ nItems' = nItems + 1
        /\ UNCHANGED <<extractResult, cleanVars, analyzeVars, hdrVars, coVars, rangeVars, renderVars>>

\* the parser delivers nothing but an error after it has signalled end-of-stream
StreamOpen == lastItem.type # "end"

\* callback(err): if (err) return reject(err)
ParserError ==
    \E m \in ErrMessages :
        /\ Deliver([type |-> "err", message |-> m])
        /\ lastItem' = [type |-> "err", message |-> m]
        /\ firstSignal' = FirstOf(firstSignal, [type |-> "err", message |-> m])

\* callback(null, undefined): end of the PDF
ParserEnd ==
    /\ StreamOpen
    /\ Deliver([type |-> "end"])
    /\ lastItem' = [type |-> "end", after |-> lastItem.type]
    /\ firstSignal' = FirstOf(firstSignal, [type |-> "end"])

\* callback(null, {page: n})
PageItem ==
    /\ StreamOpen
    /\ Deliver([type |-> "page"])
    /\ lastItem' = [type |-> "page", after |-> lastItem.type]
    /\ UNCHANGED firstSignal

\* callback(null, {text, y}) with a non-empty text
TextItem ==
    \E yh \in YVals, text \in FragTexts :
        /\ StreamOpen
        /\ Deliver([type |-> "text", y |-> yh, text |-> text])
        /\ lastItem' = [type |-> "text", y |-> yh, text |-> text, was |-> lastY]
        /\ UNCHANGED firstSignal

\* callback(null, item) for an item that is neither a page nor a text (file metadata)
OtherItem ==
    /\ StreamOpen
    /\ Deliver([type |-> "other"])
    /\ lastItem' = [type |-> "other"]
    /\ UNCHANGED firstSignal

\* the rest of extractTextFromPdf once the awaited promise is resolved
ExtractReturn ==
    /\ extractResult.kind = "none"
    /\ promise.state = "resolved"
    /\ extractResult' = ExtractOutcome(promise)
    /\ UNCHANGED <<pages, currentPage, lastY, promise, lastItem, firstSignal, nItems, lineBand>>
    /\ UNCHANGED <<cleanVars, analyzeVars, hdrVars, coVars, rangeVars, renderVars>>

\* catch (error) { throw new Error(`PDF extraction failed: ${error.message}`) }
ExtractThrow ==
    /\ extractResult.kind = "none"
    /\ promise.state = "rejected"
    /\ extractResult' = ExtractOutcome(promise)
    /\ UNCHANGED <<pages, currentPage, lastY, promise, lastItem, firstSignal, nItems, lineBand>>
    /\ UNCHANGED <<cleanVars, analyzeVars, hdrVars, coVars, rangeVars, renderVars>>

ExtractIdle ==
    /\ pages = <<>>
    /\ currentPage = <<>>
    /\ lastY = <<>>
    /\ promise = [state |-> "pending"]
    /\ extractResult = [kind |-> "none"]
    /\ lastItem = [type |-> "none"]
    /\ firstSignal = [type |-> "none"]
    /\ nItems = 0
    /\ lineBand = <<>>

CleanIdle ==
    /\ cleanIn = <<>>
    /\ cleanOut = <<>>
    /\ cleanOut2 = <<>>
    /\ cleanPc = "idle"

AnalyzeIdle ==
    /\ build = "none"
    /\ anReq = [file |-> <<>>, text |-> <<>>]
    /\ anPc = "idle"
    /\ textInput = <<>>
    /\ pdfBuffer = FALSE
    /\ summarizerCalls = <<>>
    /\ renderCalls = 0
    /\ responses = <<>>
    /\ thrown = <<>>
    /\ dateStr = <<>>

HdrIdle ==
    /\ hdrIn = <<>>
    /\ hdrWords = <<>>
    /\ hdrCleaned = <<>>
    /\ hdrOut = <<>>
    /\ hdrPc = "idle"

CoIdle ==
    /\ coDocs = <<>>
    /\ coFed = <<>>
    /\ coCalls = <<>>
    /\ coResults = <<>>
    /\ coOverlap = FALSE

RangeIdle ==
    /\ rgValue = <<>>
    /\ rgRef = [form |-> "none"]
    /\ rgStatus = ""

RenderIdle ==
    /\ rdBuild = "none"
    /\ rdLines = <<>>
    /\ rdNext = 0
    /\ rdY = 0
    /\ rdPage = 0
    /\ rdPageCount = 0
    /\ rdSection = [sectionNum |-> 0, inAbnormal |-> FALSE, inNormal |-> FALSE, inRecap |-> FALSE]
    /\ rdShapes = <<>>
    /\ rdRows = <<>>
    /\ rdPc = "idle"

Init ==
    ExtractIdle /\ CleanIdle /\ AnalyzeIdle /\ HdrIdle /\ CoIdle /\ RangeIdle /\ RenderIdle

Next ==
    \/ ParserError
    \/ ParserEnd
    \/ PageItem
    \/ TextItem
    \/ OtherItem
    \/ ExtractReturn
    \/ ExtractThrow

Spec == Init /\ [][Next]_vars

\* the callback has just placed a text fragment that is not the first of its page
TextStepAfterFirst ==
    nItems' = nItems + 1 /\ lastItem'.type = "text" /\ lastY # <<>>

\* the fragment's trimmed text is a new entry at the end of the page's line list
BeginsNewLine(cp, cp2, text) ==
    Len(cp2) > Len(cp) /\ SubSeq(cp2, 1, Len(cp)) = cp /\ Last(cp2) = Trim(text)

\* the fragment's trimmed text is appended, after one space, to the current line
AppendedToLine(cp, cp2, text) ==
    Len(cp) > 0 /\ cp2 = [cp EXCEPT ![Len(cp)] = @ \o <<" ">> \o Trim(text)]

\* C1 (as claimed): a fragment that is not the first of its page begins a new line
\* if and only if |q - p| > 4, and is otherwise appended, space-joined, to the
\* current line.
C1_NewLineIffGap ==
    [][TextStepAfterFirst =>
        LET gap == Abs(RoundY(lastItem'.y) - lastY[1])
        IN  /\ (gap > 4) <=> BeginsNewLine(currentPage, currentPage', lastItem'.text)
            /\ (gap <= 4) => AppendedToLine(currentPage, currentPage', lastItem'.text)
    ]_vars

\* C1 (amended): a fragment that is not the first of its page begins a new line if
\* and only if |q - p| > 4 or the current line is still empty (only white-space
\* fragments came before it on that line); otherwise, a gap of exactly 4 included,
\* its trimmed text is appended after one space to the current line.
C1_NewLineIffGapOrEmptyLine ==
    [][TextStepAfterFirst =>
        LET gap == Abs(RoundY(lastItem'.y) - lastY[1])
            fresh == gap > 4 \/ Last(currentPage) = <<>>
        IN  /\ fresh <=> BeginsNewLine(currentPage, currentPage', lastItem'.text)
            /\ ~fresh => AppendedToLine(currentPage, currentPage', lastItem'.text)
    ]_vars

\* a fragment at a gap of exactly 4 has been appended to a one-fragment line
C1_Witness ==
    /\ lastItem.type = "text"
    /\ lastItem.was # <<>>
    /\ Abs(RoundY(lastItem.y) - lastItem.was[1]) = 4
    /\ currentPage = <<Trim(FragNa) \o <<" ">> \o Trim(FragNa)>>

\* C2: the page count returned equals the number of per-page strings the
\* reassembler produced (1 when there is none), whatever the number of lines.
C2_PageCountIsNumberOfPages ==
    (extractResult.kind = "ok" /\ lastItem.type = "end") =>
        extractResult.pages = (IF Len(pages) = 0 THEN 1 ELSE Len(pages))

\* C5: when the parser's error comes before end-of-stream the extraction fails with
\* 'PDF extraction failed: <message>' and carries no text and no page count; the
\* first of error and end-of-stream decides the outcome and nothing later changes it.
C5_FirstSignalDecides ==
    /\ firstSignal.type = "none" => extractResult.kind = "none"
    /\ (firstSignal.type = "err" /\ extractResult.kind # "none") =>
           extractResult = [kind |-> "error",
                            message |-> ExtractionFailedPrefix \o firstSignal.message]
    /\ (firstSignal.type = "end" /\ extractResult.kind # "none") =>
           extractResult.kind = "ok"

\* an error after a reassembled page, then a late end-of-stream: still the error
C5_Witness ==
    /\ extractResult.kind = "error"
    /\ Len(pages) >= 1
    /\ firstSignal.type = "err"
    /\ lastItem.type = "end"

\* the callback has just been given a text fragment
TextStep == nItems' = nItems + 1 /\ lastItem'.type = "text"

\* the callback has just been given a page boundary
PageStep == nItems' = nItems + 1 /\ lastItem'.type = "page"

\* C16: after every page-boundary event the line buffer is empty and lastY unset, so
\* the first fragment of a page starts a new line whatever its height; a fragment
\* touches only the last line of the page being read, and a page boundary moves that
\* page's lines into at most one new page string, so no line and no page string
\* holds text of two pages.
C16_PageBoundaryResets ==
    /\ [](lastItem.type = "page" => currentPage = <<>> /\ lastY = <<>>)
    /\ [][(TextStep /\ lastY = <<>>) => currentPage' = <<Trim(lastItem'.text)>>]_vars
    /\ [][TextStep =>
            /\ pages' = pages
            /\ Len(currentPage') >= Len(currentPage)
            /\ \A i \in 1..(Len(currentPage) - 1) : currentPage'[i] = currentPage[i]]_vars
    /\ [][PageStep =>
            pages' \in {pages, Append(pages, Join(currentPage, NL))}]_vars

\* the first fragment of a second page, 4.5 units away from nothing, is alone on
\* its line
C16_Witness ==
    /\ lastItem.type = "text"
    /\ lastItem.was = <<>>
    /\ RoundY(lastItem.y) = 5
    /\ pages = <<Trim(FragNa)>>
    /\ currentPage = <<Trim(lastItem.text)>>

\* a page boundary or end-of-stream comes right after a page boundary
EmptyPageStep ==
    nItems' = nItems + 1 /\ lastItem.type = "page" /\ lastItem'.type \in {"page", "end"}

\* C17: a page without text fragments, wherever it stands in the stream, contributes
\* no line and no page string and raises no error: the extraction still resolves
\* with the text of the other pages.
C17_EmptyPageContributesNothing ==
    [][EmptyPageStep =>
        /\ pages' = pages
        /\ currentPage' = <<>>
        /\ promise'.state = "rejected" => promise.state = "rejected"
        /\ (lastItem'.type = "end" /\ promise.state = "pending") =>
               promise' = [state |-> "resolved", value |-> Join(pages, NLNL)]]_vars

\* a first page with text, then an empty page, then end-of-stream
C17_Witness ==
    /\ lastItem = [type |-> "end", after |-> "page"]
    /\ pages = <<Trim(FragNa)>>
    /\ extractResult.kind = "ok"
    /\ extractResult.text = Trim(FragNa)

\* the reassembled text is made of boilerplate only: every non-empty trimmed line of
\* it matches a junk pattern
OnlyBoilerplate(rawText) ==
    \A i \in 1..Len(TrimmedLines(rawText)) : IsJunk(TrimmedLines(rawText)[i])

\* C13: when the document consists only of boilerplate lines, cleanLabText returns
\* the empty string and extractTextFromPdf returns the text '' and raises no error.
C13_OnlyBoilerplateGivesEmptyText ==
    (extractResult.kind # "none" /\ firstSignal.type = "end"
         /\ OnlyBoilerplate(promise.value)) =>
        /\ cleanLabText(promise.value) = <<>>
        /\ extractResult.kind = "ok"
        /\ extractResult.text = <<>>

\* a document of two 'Page 1' lines has been extracted
C13_Witness ==
    /\ extractResult.kind = "ok"
    /\ firstSignal.type = "end"
    /\ Len(TrimmedLines(promise.value)) >= 2
    /\ OnlyBoilerplate(promise.value)
    /\ extractResult.text = <<>>

---------------------------------------------------------------------------
(* cleanLabText as a function of its input: the texts it is applied to     *)

MaxCleanLines == 3

LineFer == <<"F", "e", "r", " ", "1", "2">>
LineChol == <<"C", "h", "o", "l", " ", " ", "1", ",", "O", " ", "g", "/", "l">>
LinePage1 == <<"P", "a", "g", "e", " ", "1">>
LinePageO == <<" ", "P", "a", "g", "e", " ", "O">>
LineTel == <<"t", "é", "l", " ", ":", "0", "1", " ">>
LineBlank == <<" ", "\t">>

CleanLines == {LineFer, LineChol, LinePage1, LinePageO, LineTel, LineBlank}

\* the raw texts: up to MaxCleanLines lines joined by line feeds
CleanInputs ==
    {Join(ls, NL) : ls \in UNION {[1..n -> CleanLines] : n \in 0..MaxCleanLines}}

InitClean ==
    /\ cleanIn \in CleanInputs
    /\ cleanOut = <<>>
    /\ cleanOut2 = <<>>
    /\ cleanPc = "input"
    /\ ExtractIdle
    /\ AnalyzeIdle
    /\ HdrIdle
    /\ CoIdle
    /\ RangeIdle
    /\ RenderIdle

\* const cleanedText = cleanLabText(rawText)
CleanOnce ==
    /\ cleanPc = "input"
    /\ cleanOut' = cleanLabText(cleanIn)
    /\ cleanPc' = "once"
    /\ UNCHANGED <<cleanIn, cleanOut2, extractVars, analyzeVars, hdrVars, coVars, rangeVars, renderVars>>

\* the filter applied to its own output
CleanTwice ==
    /\ cleanPc = "once"
    /\ cleanOut2' = cleanLabText(cleanOut)
    /\ cleanPc' = "twice"
    /\ UNCHANGED <<cleanIn, cleanOut, extractVars, analyzeVars, hdrVars, coVars, rangeVars, renderVars>>

NextClean == CleanOnce \/ CleanTwice

SpecClean == InitClean /\ [][NextClean]_vars

\* the lines of a text produced by join('\n'); the empty text has none
OutLines(t) == IF t = <<>> THEN <<>> ELSE Split(t, NL)

\* the trimmed input lines, blank ones included, in input order
InLines(t) == [i \in 1..Len(Split(t, NL)) |-> Trim(Split(t, NL)[i])]

\* the positions of the input lines that are non-empty and match no junk pattern
KeptIdx(t) == {i \in 1..Len(InLines(t)) : InLines(t)[i] # <<>> /\ ~IsJunk(InLines(t)[i])}

\* the tokens of a line: its maximal runs of non-white-space characters
Tokens(line) == IF Trim(line) = <<>> THEN <<>> ELSE Split(CollapseWS(Trim(line)), <<" ">>)

Letters == UpperAZ \cup {LowerLetters[i] : i \in 1..Len(LowerLetters)}

IsAlphabetic(tok) == tok # <<>> /\ \A i \in 1..Len(tok) : tok[i] \in Letters

\* C3: running cleanLabText twice gives the same text as running it once.
C3_Idempotent == cleanPc = "twice" => cleanOut2 = cleanOut

\* C6: every trimmed line matching a junk pattern is dropped wholesale, and every
\* non-empty trimmed line matching none is kept as exactly one output line: the
\* output has one line per kept input line, and each text occurs among the output
\* lines exactly as often as it is the fixed form of a kept input line.
C6_JunkDroppedOthersKept ==
    cleanPc = "once" =>
        LET out == OutLines(cleanOut)
            in == InLines(cleanIn)
            kept == KeptIdx(cleanIn)
        IN  /\ Len(out) = Cardinality(kept)
            /\ \A v \in {out[k] : k \in 1..Len(out)} \cup {FixLine(in[i]) : i \in 1..Len(in)} :
                   Cardinality({k \in 1..Len(out) : out[k] = v})
                       = Cardinality({i \in kept : FixLine(in[i]) = v})

C6_Witness ==
    /\ cleanPc = "once"
    /\ \E i \in 1..Len(InLines(cleanIn)) : IsJunk(InLines(cleanIn)[i])
    /\ KeptIdx(cleanIn) # {}
    /\ cleanOut # <<>>

\* C7: cleanLabText never reorders and never merges lines: there is a strictly
\* increasing map from the output lines to the input lines under which every output
\* line is the fixed form of its one input line.
C7_OrderKeptNoMerge ==
    cleanPc = "once" =>
        LET out == OutLines(cleanOut)
            in == InLines(cleanIn)
        IN  \E f \in [1..Len(out) -> 1..Len(in)] :
                /\ \A k \in 1..Len(out) : out[k] = FixLine(in[f[k]])
                /\ \A k \in 1..Len(out) : \A m \in 1..Len(out) : k < m => f[k] < f[m]

C7_Witness ==
    /\ cleanPc = "once"
    /\ Cardinality(KeptIdx(cleanIn)) >= 2
    /\ \E i \in KeptIdx(cleanIn) : \E j \in KeptIdx(cleanIn) :
           i < j /\ InLines(cleanIn)[i] # InLines(cleanIn)[j]

\* C8: the digit substitutions touch numeric tokens only: every alphabetic token of
\* a kept line is output with its letters unchanged.
C8_AlphabeticTokensUnchanged ==
    cleanPc = "once" =>
        LET out == OutLines(cleanOut)
            in == InLines(cleanIn)
            kept == KeptIdx(cleanIn)
        IN  \A k \in 1..Len(out) :
                LET i == CHOOSE i \in kept : Cardinality({j \in kept : j < i}) = k - 1
                IN  /\ Len(Tokens(out[k])) = Len(Tokens(in[i]))
                    /\ \A t \in 1..Len(Tokens(in[i])) :
                           IsAlphabetic(Tokens(in[i])[t]) => Tokens(out[k])[t] = Tokens(in[i])[t]

---------------------------------------------------------------------------
(* removeRepeatingHeaders (the repeated-prefix variant, part_000)          *)

MaxTokens == 11

\* .slice(0, 100): first 100 words
HeaderWindow == 100

\* only remove if we found at least 10 matching words
HeaderMin == 10

Min(a, b) == IF a <= b THEN a ELSE b

RECURSIVE SplitWS(_)
\* String.prototype.split(/\s+/)
SplitWS(s) ==
    LET ws == {i \in 1..Len(s) : IsWS(s[i])}
    IN  IF ws = {} THEN <<s>>
        ELSE LET i == CHOOSE i \in ws : \A j \in ws : i <= j
             IN  <<SubSeq(s, 1, i - 1)>> \o SplitWS(DropWS(SubSeq(s, i, Len(s))))

\* Array.prototype.slice(0, n)
Take(s, n) == SubSeq(s, 1, Min(n, Len(s)))

\* Array.prototype.slice(n)
Drop(s, n) == SubSeq(s, n + 1, Len(s))

RECURSIVE HeaderLoop(_, _, _)
\* the loop over i: headerLength = i + 1 while the words agree, break at the first that differ
HeaderLoop(first, second, i) ==
    IF i < Min(Len(first), Len(second)) /\ first[i + 1] = second[i + 1]
    THEN HeaderLoop(first, second, i + 1)
    ELSE i

\* headerLength for the pages pagesText[0] and pagesText[1]
HeaderLength(pagesText) ==
    HeaderLoop(Take(SplitWS(pagesText[1]), HeaderWindow),
               Take(SplitWS(pagesText[2]), HeaderWindow), 0)

\* mutant of ShouldRemoveHeader: more than 10 matching words asked for
ShouldRemoveHeaderAbove(headerLength) == headerLength > HeaderMin

\* const shouldRemoveHeader = headerLength >= 10
ShouldRemoveHeader(headerLength) == headerLength >= HeaderMin

\* mutant of PageWords: the header removed from the first page too
PageWordsOfEveryPage(pageText, index, headerLength) ==
    IF ShouldRemoveHeader(headerLength)
    THEN Drop(SplitWS(pageText), headerLength)
    ELSE SplitWS(pageText)

\* the words of the page at (0-based) index after "words = words.slice(headerLength)"
PageWords(pageText, index, headerLength) ==
    IF ShouldRemoveHeader(headerLength) /\ index > 0
    THEN Drop(SplitWS(pageText), headerLength)
    ELSE SplitWS(pageText)

SP == <<" ">>

---------------------------------------------------------------------------
(* removeDuplicateLines (part_000): the header patterns                    *)

LowerAZ == {"a", "b", "c", "d", "e", "f", "g", "h", "i", "j", "k", "l", "m", "n", "o", "p",
    "q", "r", "s", "t", "u", "v", "w", "x", "y", "z"}

\* [A-Z\s] under the i flag
LettersWS == UpperAZ \cup LowerAZ \cup WhiteSpace

\* [A-Z\-] under the i flag
LettersDash == UpperAZ \cup LowerAZ \cup {"-"}

\* [a-z] under the i flag
LettersAZ == UpperAZ \cup LowerAZ

\* [\d\.\s]
DigitsDotWS == Digits \cup {"."} \cup WhiteSpace

\* the line terminators that . does not match
LineTerminators == {"\n", "\r"}

LitPageCI == <<"P", "A", "G", "E", " ">>
LitSur == <<" ", "S", "U", "R", " ">>
LitSlash == <<" ", "/", " ">>
LitPreleveCI == <<"P", "R", "É", "L", "E", "V", "É", " ", "L", "E", " ">>
LitEditeCI == <<"É", "D", "I", "T", "É", " ", "L", "E", " ">>
LitBiologistesCo == <<"B", "I", "O", "L", "O", "G", "I", "S", "T", "E", "S", " ", "C", "O", "-",
    "R", "E", "S", "P", "O", "N", "S", "A", "B", "L", "E", "S">>
LitLesInformationsCI == <<"L", "E", "S", " ", "I", "N", "F", "O", "R", "M", "A", "T", "I", "O",
    "N", "S", " ", "C", "O", "N", "T", "E", "N", "U", "E", "S", " ", "D", "A", "N", "S", " ",
    "C", "E", " ", "D", "O", "C", "U", "M", "E", "N", "T">>
LitDotFr == <<".", "F", "R">>
PageBreakMarker == <<"=", "=", "=", "P", "A", "G", "E", "_", "B", "R", "E", "A", "K", "=", "=",
    "=">>

\* '\n\n===PAGE_BREAK===\n\n'
PageBreakSep == NLNL \o PageBreakMarker \o NLNL

\* Every matcher below is given the text s and a start index i, and yields the index
\* just after the match of its (sub)pattern at i, or 0 when it does not match there.

\* a literal under the i flag; LIT is written in upper case
LitEnd(s, i, LIT) ==
    IF i >= 1 /\ i + Len(LIT) - 1 <= Len(s) /\ \A k \in 1..Len(LIT) : ToUpper(s[i + k - 1]) = LIT[k]
    THEN i + Len(LIT)
    ELSE 0

\* [class]* from i, greedy: the index after the longest run of class characters
RunEnd(s, i, class) ==
    LET stop == {j \in i..Len(s) : s[j] \notin class}
    IN  IF stop = {} THEN Len(s) + 1 ELSE CHOOSE j \in stop : \A k \in stop : j <= k

\* [class]+ from i when i is a match position (not 0): 0 when the run is empty
RunEnd1(s, i, class) ==
    IF i = 0 THEN 0
    ELSE LET e == RunEnd(s, i, class) IN IF e > i THEN e ELSE 0

\* \d{n} from i when i is a match position: exactly n digits
DigitsEnd(s, i, n) ==
    IF i >= 1 /\ i + n - 1 <= Len(s) /\ \A k \in 0..(n - 1) : IsDigit(s[i + k])
    THEN i + n
    ELSE 0

\* a literal that follows a part matched up to i
ThenLit(s, i, LIT) == IF i = 0 THEN 0 ELSE LitEnd(s, i, LIT)

\* /LBM [A-Z\s]+/gi and /SELAS [A-Z\s]+/gi
LabelRunEnd(s, i, LIT) == RunEnd1(s, LitEnd(s, i, LIT), LettersWS)

\* /\d{5}\s+[A-Z\-]+/gi
PostalEnd(s, i) == RunEnd1(s, RunEnd1(s, DigitsEnd(s, i, 5), WhiteSpace), LettersDash)

\* /Tél\s*:\s*[\d\.\s]+/gi and /Fax\s*:\s*[\d\.\s]+/gi
LabelColonEnd(s, i, LIT) ==
    LET e == LitEnd(s, i, LIT)
        c == IF e = 0 THEN 0 ELSE RunEnd(s, e, WhiteSpace)
    IN  IF c # 0 /\ c <= Len(s) /\ s[c] = ":" THEN RunEnd1(s, c + 1, DigitsDotWS) ELSE 0

\* /www\.[a-z]+\.fr/gi
WwwEnd(s, i) == ThenLit(s, RunEnd1(s, LitEnd(s, i, LitWww), LettersAZ), LitDotFr)

\* /Page \d+ sur \d+/gi and /Page \d+ \/ \d+/gi
PageOfEnd(s, i, MID) ==
    RunEnd1(s, ThenLit(s, RunEnd1(s, LitEnd(s, i, LitPageCI), Digits), MID), Digits)

\* /Prélevé le \d{2}\/\d{2}\/\d{2}/gi
PreleveEnd(s, i) ==
    LET d1 == IF LitEnd(s, i, LitPreleveCI) = 0 THEN 0
              ELSE DigitsEnd(s, LitEnd(s, i, LitPreleveCI), 2)
        d2 == IF d1 # 0 /\ d1 <= Len(s) /\ s[d1] = "/" THEN DigitsEnd(s, d1 + 1, 2) ELSE 0
    IN  IF d2 # 0 /\ d2 <= Len(s) /\ s[d2] = "/" THEN DigitsEnd(s, d2 + 1, 2) ELSE 0

\* /Édité le .+ \d{4}/gi : .+ is greedy, so the last " dddd" of the line ends the match
EditeEnd(s, i) ==
    LET e == LitEnd(s, i, LitEditeCI)
        eol == IF e = 0 THEN 0 ELSE RunEnd(s, e, {s[j] : j \in 1..Len(s)} \ LineTerminators)
        years == {j \in (e + 1)..(eol - 1) : s[j] = " " /\ DigitsEnd(s, j + 1, 4) # 0}
    IN  IF e = 0 \/ years = {} THEN 0
        ELSE (CHOOSE j \in years : \A k \in years : k <= j) + 5

\* headerPatterns[k - 1] tried at index i of s
HeaderPatternEnd(k, s, i) ==
    CASE k = 1 -> LitEnd(s, i, LitLaboratoire)
      [] k = 2 -> LabelRunEnd(s, i, LitLBM)
      [] k = 3 -> PostalEnd(s, i)
      [] k = 4 -> LabelColonEnd(s, i, LitTel)
      [] k = 5 -> LabelColonEnd(s, i, LitFax)
      [] k = 6 -> WwwEnd(s, i)
      [] k = 7 -> LabelRunEnd(s, i, LitSELAS)
      [] k = 8 -> LitEnd(s, i, LitBiologistesCo)
      [] k = 9 -> PageOfEnd(s, i, LitSur)
      [] k = 10 -> PageOfEnd(s, i, LitSlash)
      [] k = 11 -> PreleveEnd(s, i)
      [] k = 12 -> EditeEnd(s, i)
      [] k = 13 -> LitEnd(s, i, LitLesInformationsCI)

\* headerPatterns.length
NumHeaderPatterns == 13

\* the start indices at which headerPatterns[k - 1] matches in s
\* the characters a match of headerPatterns[k - 1] begins with
HeaderPatternFirst ==
    <<{"L", "l"}, {"L", "l"}, Digits, {"T", "t"}, {"F", "f"}, {"W", "w"}, {"S", "s"},
      {"B", "b"}, {"P", "p"}, {"P", "p"}, {"P", "p"}, {"É", "é"}, {"L", "l"}>>

PatternHits(k, s) ==
    {i \in 1..Len(s) : s[i] \in HeaderPatternFirst[k] /\ HeaderPatternEnd(k, s, i) # 0}

RECURSIVE RemovePattern(_, _)
\* cleaned.replace(pattern, '') with the g flag: leftmost match first, then on from its end
RemovePattern(k, s) ==
    LET hits == PatternHits(k, s)
    IN  IF hits = {} THEN s
        ELSE LET i == CHOOSE i \in hits : \A j \in hits : i <= j
             IN  SubSeq(s, 1, i - 1)
                     \o RemovePattern(k, SubSeq(s, HeaderPatternEnd(k, s, i), Len(s)))

RECURSIVE RemovePatterns(_, _)
\* headerPatterns.forEach(pattern => { cleaned = cleaned.replace(pattern, '') }), from k on
RemovePatterns(k, s) ==
    IF k > NumHeaderPatterns THEN s ELSE RemovePatterns(k + 1, RemovePattern(k, s))

\* cleaned.replace(/\n{3,}/g, '\n\n'): of a run of three or more line feeds two stay
CollapseNewlines(s) ==
    LET In(i) == i >= 1 /\ i <= Len(s) /\ s[i] = "\n"
        Long(i) == \/ In(i - 2) /\ In(i - 1)
                   \/ In(i - 1) /\ In(i + 1)
                   \/ In(i + 1) /\ In(i + 2)
        first == SelectSeq([i \in 1..Len(s) |-> i],
                           LAMBDA i : ~(In(i) /\ Long(i)) \/ ~In(i - 1) \/ ~In(i - 2))
    IN  [k \in 1..Len(first) |-> s[first[k]]]

\* cleaned.replace(/\s{3,}/g, ' '): a run of three or more white spaces becomes one space
CollapseLongWS(s) ==
    LET In(i) == i >= 1 /\ i <= Len(s) /\ IsWS(s[i])
        Long(i) == \/ In(i - 2) /\ In(i - 1)
                   \/ In(i - 1) /\ In(i + 1)
                   \/ In(i + 1) /\ In(i + 2)
        first == SelectSeq([i \in 1..Len(s) |-> i],
                           LAMBDA i : ~(In(i) /\ Long(i)) \/ ~In(i - 1))
    IN  [k \in 1..Len(first) |-> IF In(first[k]) /\ Long(first[k]) THEN " " ELSE s[first[k]]]

\* cleaned.replace(/===PAGE_BREAK===/g, '\n\n')
ReplacePageBreaks(s) == Join(Split(s, PageBreakMarker), NLNL)

removeDuplicateLines(pagesText) ==
    IF Len(pagesText) < 2
    THEN Join(pagesText, NLNL)
    ELSE Trim(ReplacePageBreaks(CollapseLongWS(CollapseNewlines(
             RemovePatterns(1, Join(pagesText, PageBreakSep))))))

\* removeRepeatingHeaders as a function of pagesText
removeRepeatingHeaders(pagesText) ==
    IF Len(pagesText) < 2
    THEN Join(pagesText, NLNL)
    ELSE removeDuplicateLines(
             [p \in 1..Len(pagesText) |->
                 Join(PageWords(pagesText[p], p - 1, HeaderLength(pagesText)), SP)])

---------------------------------------------------------------------------
(* removeRepeatingHeaders: the page texts it is applied to                 *)

\* a page text of n words, all "a" but the one at position d (none when d = 0)
HdrPage(n, d) == Join([i \in 1..n |-> IF i = d THEN <<"b">> ELSE <<"a">>], SP)

FirstPages == {HdrPage(n, 0) : n \in 0..MaxTokens}

SecondPages == {HdrPage(n, d) : n \in 0..MaxTokens, d \in 0..MaxTokens}

\* further pages: repeating the header or not, some with a leading blank
LaterPages ==
    {lead \o HdrPage(n, d) : n \in 0..MaxTokens, d \in {0, 1}, lead \in {<<>>, SP}}

PgPageOf == <<"F", "e", "r", " ", "1", "2", " ", "P", "a", "g", "e", " ", "1", " ", "s", "u",
    "r", " ", "2">>
PgTel == <<"t", "é", "l", ":", " ", "0", "1", ".", "0", "2", " ", "N", "a", " ", "1", "4", "0">>
PgEdite == <<"K", " ", "4", " ", "É", "d", "i", "t", "é", " ", "l", "e", " ", "3", " ", "m",
    "a", "i", " ", "2", "0", "2", "4">>
PgPlain == <<"K", " ", "4", ",", "1">>

\* page texts carrying lab boilerplate
BoilerplatePages == {PgPageOf, PgTel, PgEdite, PgPlain}

HdrInputs ==
    {<<p>> : p \in FirstPages}
        \cup {<<p, q>> : p \in FirstPages, q \in SecondPages}
        \cup {<<p, q, r>> : p \in FirstPages, q \in SecondPages, r \in LaterPages}
        \cup {<<p>> : p \in BoilerplatePages}
        \cup {<<p, q>> : p \in BoilerplatePages, q \in BoilerplatePages}

InitHdr ==
    /\ hdrIn \in HdrInputs
    /\ hdrWords = <<>>
    /\ hdrCleaned = <<>>
    /\ hdrOut = <<>>
    /\ hdrPc = "input"
    /\ ExtractIdle
    /\ CleanIdle
    /\ AnalyzeIdle
    /\ CoIdle
    /\ RangeIdle
    /\ RenderIdle

\* if (pagesText.length < 2) return pagesText.join('\n\n')
HdrSinglePage ==
    /\ hdrPc = "input"
    /\ Len(hdrIn) < 2
    /\ hdrOut' = <<Join(hdrIn, NLNL)>>
    /\ hdrPc' = "returned"
    /\ UNCHANGED <<hdrIn, hdrWords, hdrCleaned, extractVars, cleanVars, analyzeVars, coVars, rangeVars, renderVars>>

\* two pages or more: headerLength, cleanedPages = pagesText.map(...), then
\* return removeDuplicateLines(cleanedPages)
HdrStrip ==
    /\ hdrPc = "input"
    /\ Len(hdrIn) >= 2
    /\ hdrWords' = [p \in 1..Len(hdrIn) |-> PageWords(hdrIn[p], p - 1, HeaderLength(hdrIn))]
    /\ hdrCleaned' = [p \in 1..Len(hdrIn) |-> Join(hdrWords'[p], SP)]
    /\ hdrOut' = <<removeDuplicateLines(hdrCleaned')>>
    /\ hdrPc' = "stripped"
    /\ UNCHANGED <<hdrIn, extractVars, cleanVars, analyzeVars, coVars, rangeVars, renderVars>>

NextHdr == HdrSinglePage \/ HdrStrip

SpecHdr == InitHdr /\ [][NextHdr]_vars

\* the length of the longest common prefix of two word lists
CommonPrefix(a, b) ==
    CHOOSE k \in 0..Min(Len(a), Len(b)) :
        /\ \A i \in 1..k : a[i] = b[i]
        /\ k < Min(Len(a), Len(b)) => a[k + 1] # b[k + 1]

\* h: the common prefix of the first 100 words of page 1 and page 2
CommonHeader(pagesText) ==
    CommonPrefix(Take(SplitWS(pagesText[1]), 100), Take(SplitWS(pagesText[2]), 100))

\* C9: with h the common word prefix of pages 1 and 2, the positional step removes
\* no word from any page when h <= 9 and removes words when h >= 10.
C9_RemovalFromTenWords ==
    hdrPc = "stripped" =>
        LET h == CommonHeader(hdrIn)
        IN  /\ h <= 9 => \A p \in 1..Len(hdrIn) : hdrWords[p] = SplitWS(hdrIn[p])
            /\ h >= 10 => \E p \in 1..Len(hdrIn) : Len(hdrWords[p]) < Len(SplitWS(hdrIn[p]))

\* a header of exactly 10 words has been removed from the second page
C9_Witness ==
    /\ hdrPc = "stripped"
    /\ CommonHeader(hdrIn) = 10
    /\ Len(hdrWords[2]) = Len(SplitWS(hdrIn[2])) - 10

\* C10: when h >= 10 the first h words are stripped from every page other than the
\* first (a page of fewer than h words loses them all), and the first page keeps
\* all its words.
C10_HeaderStrippedButFromFirstPage ==
    (hdrPc = "stripped" /\ CommonHeader(hdrIn) >= 10) =>
        LET h == CommonHeader(hdrIn)
        IN  /\ \A p \in 2..Len(hdrIn) :
                   hdrWords[p] = [k \in 1..(Len(SplitWS(hdrIn[p])) - h) |-> SplitWS(hdrIn[p])[k + h]]
            /\ hdrWords[1] = SplitWS(hdrIn[1])

\* three pages with a header of at least 10 words; the third keeps words after it
C10_Witness ==
    /\ hdrPc = "stripped"
    /\ Len(hdrIn) = 3
    /\ CommonHeader(hdrIn) >= 10
    /\ Len(hdrWords[3]) > 0
    /\ Len(hdrWords[3]) = Len(SplitWS(hdrIn[3])) - CommonHeader(hdrIn)
    /\ Len(hdrWords[1]) >= 10

\* C25: the words the positional step deletes from a page other than the first are,
\* word for word, the detected header (the common prefix of pages 1 and 2); a later
\* page that does not begin with that header loses none of its words.
C25_OnlyTheHeaderIsDeleted ==
    hdrPc = "stripped" =>
        LET header == Take(SplitWS(hdrIn[1]), CommonHeader(hdrIn))
        IN  \A p \in 2..Len(hdrIn) :
                LET words == SplitWS(hdrIn[p])
                    deleted == Take(words, Len(words) - Len(hdrWords[p]))
                IN  /\ deleted # <<>> => deleted = header
                    /\ Take(words, Len(header)) # header => hdrWords[p] = words

\* C11: pattern-based boilerplate removal is applied to the text of every document,
\* a single-page one included: the text removeRepeatingHeaders returns holds no match
\* of any header pattern.
C11_PatternsRemovedWhateverThePages ==
    hdrOut # <<>> =>
        \A k \in 1..NumHeaderPatterns : PatternHits(k, hdrOut[1]) = {}

---------------------------------------------------------------------------
(* POST /api/analyze                                                       *)

MaxDocItems == 3

\* server.js: if (!textInput || textInput.length < 50)
MinTextLength == 50

\* part_000: if (!textInput || textInput.length < 10)
MinTextLength000 == 10

\* the two sources of the handler
Builds == {"server.js", "part_000"}

\* the minimum usable length of the build
MinTextLengthOf(b) == IF b = "part_000" THEN MinTextLength000 ELSE MinTextLength

FragPolynucleaires == <<"P", "o", "l", "y", "n", "u", "c", "l", "é", "a", "i", "r", "e", "s",
    " ", "n", "e", "u", "t", "r", "o", "p", "h", "i", "l", "e", "s", " ", "1", ",", "1", "5",
    " ", "G", "i", "g", "a", "/", "L", " ", "(", "r", "e", "p", "è", "r", "e", "s", " ", ":",
    " ", "1", ",", "5", "0", " ", "à", " ", "7", ",", "5", "0", ")">>
FragPageO == <<"P", "a", "g", "e", " ", "O">>
FragEdite == <<"É", "d", "i", "t", "é", " ", "l", "e", " ", "3", " ", "m", "a", "i", " ", "2", "0", "2", "4">>

\* the items a parsed upload is made of
DocItems ==
    {[type |-> "page"], [type |-> "end"], [type |-> "err", message |-> "bad XRef entry"],
     [type |-> "text", y |-> 0, text |-> FragPolynucleaires],
     [type |-> "text", y |-> 45, text |-> FragPageO],
     [type |-> "text", y |-> 45, text |-> FragPage1],
     [type |-> "text", y |-> 35, text |-> FragEdite]}

\* req.file.buffer, given by the items the parser delivers for it
Documents == UNION {[1..n -> DocItems] : n \in 1..MaxDocItems}

\* req.body.text when present
BodyTexts == {<<>>, FragPage1, FragNa}

StrFer == <<"F", "e", "r", " ", "1", "2">>
StrPotassium == <<"K", " ", "4", ",", "1", " ", "m", "m", "o", "l", "/", "L">>
StrPageOf == <<"P", "a", "g", "e", " ", "1", " ", "s", "u", "r", " ", "2">>

\* part_000: what a parsed upload is made of, a text item (item.str) or the start
\* of the next page
PdfTokens ==
    {[type |-> "page"]}
        \cup {[type |-> "str", str |-> t] : t \in {StrFer, FragBlank, StrPotassium, StrPageOf}}

RECURSIVE PagesOf(_, _)
\* data.pages of an upload, as the content strings of each page; acc holds the pages
\* so far and is never empty
PagesOf(acc, tokens) ==
    IF tokens = <<>> THEN acc
    ELSE IF Head(tokens).type = "page"
    THEN PagesOf(Append(acc, <<>>), Tail(tokens))
    ELSE PagesOf([acc EXCEPT ![Len(acc)] = Append(@, Head(tokens).str)], Tail(tokens))

\* part_000: req.file.buffer, given by what pdfExtract.extractBuffer does with it:
\* it rejects, or resolves to data with at least one page
Documents000 ==
    {[failed |-> TRUE, message |-> "bad XRef entry"]}
        \cup {[failed |-> FALSE, pages |-> PagesOf(<<<<>>>>, t)] :
                 t \in UNION {[1..n -> PdfTokens] : n \in 0..MaxDocItems}}

\* the requests the handler of build b is given
Requests(b) ==
    [file : {<<>>} \cup {<<d>> : d \in IF b = "part_000" THEN Documents000 ELSE Documents},
     text : {<<>>} \cup {<<t>> : t \in BodyTexts}]

RECURSIVE Reassemble(_, _)
\* the callback run over all the items of a document
Reassemble(st, items) ==
    IF items = <<>> THEN st ELSE Reassemble(Callback(st, Head(items)), Tail(items))

\* await extractTextFromPdf(buffer): kind "none" when the promise is never settled
extractTextFromPdf(items) == ExtractOutcome(Reassemble(NewReassembly, items).promise)

\* part_000: page.content.map(item => item.str).filter(text => text.trim().length > 0)
\* .join(' ')
PageText(content) == Join(SelectSeq(content, LAMBDA t : Len(Trim(t)) > 0), SP)

\* part_000: await extractTextFromPdf(buffer)
extractTextFromPdf000(data) ==
    IF data.failed
    THEN [kind |-> "error", message |-> ExtractionFailedPrefix \o data.message]
    ELSE [kind |-> "ok",
          text |-> Trim(removeRepeatingHeaders(
                       [p \in 1..Len(data.pages) |-> PageText(data.pages[p])])),
          pages |-> Len(data.pages)]

\* await extractTextFromPdf(req.file.buffer) in build b
ExtractFor(b, file) ==
    IF b = "part_000" THEN extractTextFromPdf000(file) ELSE extractTextFromPdf(file)

\* !textInput
Falsy(opt) == opt = <<>> \/ opt[1] = <<>>

\* the check before the summarizer: server.js "if (!textInput)", part_000
\* "if (!textInput || textInput.trim().length === 0)"
NoText(b, opt) == Falsy(opt) \/ (b = "part_000" /\ Len(Trim(opt[1])) = 0)

\* res.status(code).json({ success, ... }) ends the handler
Respond(code) ==
    /\ responses' = Append(responses, [status |-> code, success |-> code = 200])
    /\ anPc' = "done"

\* catch (error) { res.status(500).json({ success: false, ... }) } for an error of call
Catch(call) ==
    /\ thrown' = <<call>>
    /\ Respond(500)

\* mutant of TooShort: only the empty text is refused
TooShortOnlyEmpty(b, opt) == Falsy(opt)

\* if (!textInput || textInput.length < 50), < 10 in part_000
TooShort(b, opt) == Falsy(opt) \/ Len(opt[1]) < MinTextLengthOf(b)

InitAnalyze ==
    /\ build \in Builds
    /\ anReq \in Requests(build)
    /\ anPc = "start"
    /\ textInput = <<>>
    /\ pdfBuffer = FALSE
    /\ summarizerCalls = <<>>
    /\ renderCalls = 0
    /\ responses = <<>>
    /\ thrown = <<>>
    /\ dateStr = <<>>
    /\ ExtractIdle
    /\ CleanIdle
    /\ HdrIdle
    /\ CoIdle
    /\ RangeIdle
    /\ RenderIdle

\* let textInput = req.body.text; without a file: if (!textInput) return 400
AnalyzeStart ==
    /\ anPc = "start"
    /\ textInput' = anReq.text
    /\ IF anReq.file # <<>>
       THEN anPc' = "extracting" /\ UNCHANGED responses
       ELSE IF NoText(build, anReq.text)
       THEN Respond(400)
       ELSE anPc' = "prompt" /\ UNCHANGED responses
    /\ UNCHANGED <<build, anReq, pdfBuffer, summarizerCalls, renderCalls, thrown, dateStr>>
    /\ UNCHANGED <<extractVars, cleanVars, hdrVars, coVars, rangeVars, renderVars>>

\* const result = await extractTextFromPdf(req.file.buffer) and the length check
AnalyzeExtracted ==
    /\ anPc = "extracting"
    /\ LET result == ExtractFor(build, anReq.file[1])
       IN  /\ result.kind # "none"
           /\ IF result.kind = "error"
              THEN Catch("extractTextFromPdf") /\ UNCHANGED <<textInput, pdfBuffer>>
              ELSE /\ textInput' = <<result.text>>
                   /\ pdfBuffer' = TRUE
                   /\ UNCHANGED thrown
                   /\ IF TooShort(build, textInput')
                      THEN Respond(400)
                      ELSE IF NoText(build, textInput')
                      THEN Respond(400)
                      ELSE anPc' = "prompt" /\ UNCHANGED responses
    /\ UNCHANGED <<build, anReq, summarizerCalls, renderCalls, dateStr>>
    /\ UNCHANGED <<extractVars, cleanVars, hdrVars, coVars, rangeVars, renderVars>>

\* server.js: const systemPrompt = await getSystemPrompt(), which may throw;
\* part_000: if (!process.env.OPENAI_API_KEY) return 500;
\* then openai.chat.completions.create({ ... textInput ... }) is called
AnalyzePrompt ==
    /\ anPc = "prompt"
    /\ \E fetched \in BOOLEAN :
           IF fetched
           THEN /\ summarizerCalls' = Append(summarizerCalls, textInput[1])
                /\ anPc' = "summarizing"
                /\ UNCHANGED <<responses, thrown>>
           ELSE /\ IF build = "part_000"
                   THEN Respond(500) /\ UNCHANGED thrown
                   ELSE Catch("getSystemPrompt")
                /\ UNCHANGED summarizerCalls
    /\ UNCHANGED <<build, anReq, textInput, pdfBuffer, renderCalls, dateStr>>
    /\ UNCHANGED <<extractVars, cleanVars, hdrVars, coVars, rangeVars, renderVars>>

\* mutant of AnalyzeSummarized: a failed summarizer call is tried once more
AnalyzeSummarizedRetries ==
    /\ anPc = "summarizing"
    /\ \E completed \in BOOLEAN :
           IF ~completed /\ Len(summarizerCalls) < 2
           THEN /\ summarizerCalls' = Append(summarizerCalls, textInput[1])
                /\ UNCHANGED <<anPc, responses, thrown, renderCalls>>
           ELSE IF ~completed
           THEN Catch("openai") /\ UNCHANGED <<renderCalls, summarizerCalls>>
           ELSE IF pdfBuffer
           THEN /\ renderCalls' = renderCalls + 1
                /\ anPc' = "rendering"
                /\ UNCHANGED <<responses, thrown, summarizerCalls>>
           ELSE Respond(200) /\ UNCHANGED <<renderCalls, thrown, summarizerCalls>>
    /\ UNCHANGED <<build, anReq, textInput, pdfBuffer, dateStr>>
    /\ UNCHANGED <<extractVars, cleanVars, hdrVars, coVars, rangeVars, renderVars>>

\* the completion arrives (or the call fails); if (pdfBuffer) appendResultsToPdf(...)
AnalyzeSummarized ==
    /\ anPc = "summarizing"
    /\ \E completed \in BOOLEAN :
           IF ~completed
           THEN Catch("openai") /\ UNCHANGED renderCalls
           ELSE IF pdfBuffer
           THEN /\ renderCalls' = renderCalls + 1
                /\ anPc' = "rendering"
                /\ UNCHANGED <<responses, thrown>>
           ELSE Respond(200) /\ UNCHANGED <<renderCalls, thrown>>
    /\ UNCHANGED <<build, anReq, textInput, pdfBuffer, summarizerCalls, dateStr>>
    /\ UNCHANGED <<extractVars, cleanVars, hdrVars, coVars, rangeVars, renderVars>>

\* \w
WordChars == UpperAZ \cup LowerAZ \cup Digits \cup {"_"}

\* String.prototype.toLowerCase, character by character
ToLower(c) ==
    IF \E l \in DOMAIN UpperOf : UpperOf[l] = c /\ l # c
    THEN CHOOSE l \in DOMAIN UpperOf : UpperOf[l] = c /\ l # c
    ELSE c

\* const months = { janvier: 0, ..., décembre: 11 }, the names in the order of their numbers
Months ==
    <<<<"j", "a", "n", "v", "i", "e", "r">>,
      <<"f", "é", "v", "r", "i", "e", "r">>,
      <<"m", "a", "r", "s">>,
      <<"a", "v", "r", "i", "l">>,
      <<"m", "a", "i">>,
      <<"j", "u", "i", "n">>,
      <<"j", "u", "i", "l", "l", "e", "t">>,
      <<"a", "o", "û", "t">>,
      <<"s", "e", "p", "t", "e", "m", "b", "r", "e">>,
      <<"o", "c", "t", "o", "b", "r", "e">>,
      <<"n", "o", "v", "e", "m", "b", "r", "e">>,
      <<"d", "é", "c", "e", "m", "b", "r", "e">>>>

\* /Édité le (\d+)/ from i: the index after the day, 0 when there is no match
EditDayEnd(t, i) ==
    IF i + Len(LitEdite) - 1 <= Len(t) /\ SubSeq(t, i, i + Len(LitEdite) - 1) = LitEdite
    THEN RunEnd1(t, i + Len(LitEdite), Digits)
    ELSE 0

\* /Édité le (\d+) (\w+)/ from i: the index after the month word
EditMonthEnd(t, i) == RunEnd1(t, ThenLit(t, EditDayEnd(t, i), SP), WordChars)

\* /Édité le (\d+) (\w+) (\d{4})/ from i: the index after the year
EditDateEnd(t, i) == DigitsEnd(t, ThenLit(t, EditMonthEnd(t, i), SP), 4)

\* textInput.match(...): the index where the first match begins, 0 for null
EditDateMatch(t) ==
    LET hits == {i \in 1..Len(t) : EditDateEnd(t, i) # 0}
    IN  IF hits = {} THEN 0 ELSE CHOOSE i \in hits : \A j \in hits : i <= j

\* dateStr: 'Date inconnue', or the date of the stamp when its month is a key of
\* months (new Date(year, month, day) formatted for fr-FR; day a day of that month)
ReportDate(t) ==
    LET i == EditDateMatch(t)
        dayEnd == EditDayEnd(t, i)
        monthEnd == EditMonthEnd(t, i)
        monthStr == [k \in 1..(monthEnd - dayEnd - 1) |-> ToLower(t[dayEnd + k])]
        named == {m \in 1..Len(Months) : Months[m] = monthStr}
    IN  IF i = 0 \/ named = {}
        THEN [kind |-> "Date inconnue"]
        ELSE [kind |-> "date",
              day |-> IntOf(SubSeq(t, i + Len(LitEdite), dayEnd - 1)),
              month |-> (CHOOSE m \in named : TRUE) - 1,
              year |-> IntOf(SubSeq(t, monthEnd + 1, monthEnd + 4))]

\* appendResultsToPdf returns (or throws); res.json({ success: true, ... }).
\* The first renderer of server.js draws dateStr parsed from textInput; part_000
\* draws the day of the run
AnalyzeRendered ==
    /\ anPc = "rendering"
    /\ \E rendered \in BOOLEAN :
           IF rendered
           THEN /\ Respond(200)
                /\ dateStr' = <<IF build = "server.js" THEN ReportDate(textInput[1])
                                ELSE [kind |-> "today"]>>
                /\ UNCHANGED thrown
           ELSE Catch("appendResultsToPdf") /\ UNCHANGED dateStr
    /\ UNCHANGED <<build, anReq, textInput, pdfBuffer, summarizerCalls, renderCalls>>
    /\ UNCHANGED <<extractVars, cleanVars, hdrVars, coVars, rangeVars, renderVars>>

NextAnalyze ==
    \/ AnalyzeStart
    \/ AnalyzeExtracted
    \/ AnalyzePrompt
    \/ AnalyzeSummarized
    \/ AnalyzeRendered

SpecAnalyze == InitAnalyze /\ [][NextAnalyze]_vars

\* C4: whenever /api/analyze (server.js) invokes the summarizer, no line of the lab
\* text in the user message matches a junk pattern, on the PDF path and on the text
\* path alike.
C4_SummarizerTextHasNoJunk ==
    build = "server.js" =>
      \A k \in 1..Len(summarizerCalls) :
        \A i \in 1..Len(Split(summarizerCalls[k], NL)) :
            ~IsJunk(Split(summarizerCalls[k], NL)[i])

\* the request carries a PDF whose extraction succeeds
Extracts == anReq.file # <<>> /\ ExtractFor(build, anReq.file[1]).kind = "ok"

\* the text extracted from the request's PDF
ExtractedText == ExtractFor(build, anReq.file[1]).text

\* C12: for an uploaded PDF whose filtered text is empty or shorter than the minimum
\* usable length (50 characters in server.js, 10 in part_000) the handler answers with
\* one client error (400), never a server error, and calls neither the summarizer nor
\* the PDF renderer.
C12_ShortTextIsClientError ==
    (Extracts /\ Len(ExtractedText) < (IF build = "part_000" THEN 10 ELSE 50)) =>
        /\ summarizerCalls = <<>>
        /\ renderCalls = 0
        /\ responses \in {<<>>, <<[status |-> 400, success |-> FALSE]>>}
        /\ anPc = "done" => responses # <<>>

\* server.js has refused a PDF with some text, but less than 50 characters
C12_Witness ==
    /\ build = "server.js"
    /\ anPc = "done"
    /\ Extracts
    /\ Len(ExtractedText) \in 1..49
    /\ responses = <<[status |-> 400, success |-> FALSE]>>

\* C14: per request the summarizer is invoked at most once; when that call or the
\* PDF parsing fails the request ends with exactly one response, a 500 with success
\* false: no retry, no PDF rendering and no success response.
C14_OneCallAndFailureIsFinal ==
    /\ Len(summarizerCalls) <= 1
    /\ Len(responses) <= 1
    /\ thrown \in {<<"extractTextFromPdf">>, <<"openai">>} =>
           /\ anPc = "done"
           /\ responses = <<[status |-> 500, success |-> FALSE]>>
           /\ renderCalls = 0
    /\ thrown = <<"extractTextFromPdf">> => summarizerCalls = <<>>

\* the summarizer call of a request with a PDF has failed
C14_Witness ==
    /\ thrown = <<"openai">>
    /\ pdfBuffer
    /\ Len(summarizerCalls) = 1
    /\ responses = <<[status |-> 500, success |-> FALSE]>>

\* the uploaded report carries the edit stamp 'Édité le 3 mai 2024'
HasEditStamp ==
    anReq.file # <<>> /\ \E k \in 1..Len(anReq.file[1]) :
        anReq.file[1][k].type = "text" /\ anReq.file[1][k].text = FragEdite

\* C26: the date the first renderer of server.js draws is parsed from the extracted
\* text: when the uploaded report carries an edit stamp 'Édité le <day> <month>
\* <year>' with a French month name the date drawn is that date, and 'Date inconnue'
\* is drawn only when the report has no such stamp.
C26_ReportDateIsTheStamp ==
    (build = "server.js" /\ dateStr # <<>>) =>
        /\ HasEditStamp =>
               dateStr[1] = [kind |-> "date", day |-> 3, month |-> 4, year |-> 2024]
        /\ dateStr[1].kind = "Date inconnue" => ~HasEditStamp

---------------------------------------------------------------------------
(* Two extractTextFromPdf calls in flight at once (server.js)              *)

MaxCoItems == 2

\* the items of the two PDFs, before their end-of-stream
CoItems ==
    {[type |-> "page"], [type |-> "err", message |-> "bad XRef entry"],
     [type |-> "text", y |-> 0, text |-> FragNa],
     [type |-> "text", y |-> 45, text |-> FragPage1]}

\* a PDF as its parser delivers it: up to MaxCoItems items, then end-of-stream
CoDocuments ==
    {body \o <<[type |-> "end"]>> : body \in UNION {[1..n -> CoItems] : n \in 0..MaxCoItems}}

\* mutant of ClosureOf: lastY declared outside the function, one for all calls
ClosureSharingLastY(calls, c) == [calls[c] EXCEPT !.lastY = calls[3 - c].lastY]

\* let pages = [], currentPage = [], lastY = null inside extractTextFromPdf: the
\* callback of call c works on the variables of call c
ClosureOf(calls, c) == calls[c]

\* call c is between its first item and its last
MidStream(c) == coFed[c] > 0 /\ coFed[c] < Len(coDocs[c])

InitPair ==
    /\ coDocs \in [1..2 -> CoDocuments]
    /\ coFed = [c \in 1..2 |-> 0]
    /\ coCalls = [c \in 1..2 |-> NewReassembly]
    /\ coResults = [c \in 1..2 |-> [kind |-> "none"]]
    /\ coOverlap = FALSE
    /\ ExtractIdle
    /\ CleanIdle
    /\ AnalyzeIdle
    /\ HdrIdle
    /\ RangeIdle
    /\ RenderIdle

\* the parser of call c calls that call's callback with its next item
CoDeliver(c) ==
    /\ coFed[c] < Len(coDocs[c])
    /\ coCalls' = [coCalls EXCEPT ![c] = Callback(ClosureOf(coCalls, c), coDocs[c][coFed[c] + 1])]
    /\ coFed' = [coFed EXCEPT ![c] = @ + 1]
    /\ coOverlap' = (coOverlap \/ MidStream(3 - c))
    /\ UNCHANGED <<coDocs, coResults, extractVars, cleanVars, analyzeVars, hdrVars, rangeVars, renderVars>>

\* the rest of extractTextFromPdf of call c once its promise is settled: return
\* { text: cleanLabText(rawText).trim(), pages } or throw
CoSettled(c) ==
    /\ coResults[c].kind = "none"
    /\ coCalls[c].promise.state # "pending"
    /\ coResults' = [coResults EXCEPT ![c] = ExtractOutcome(coCalls[c].promise)]
    /\ UNCHANGED <<coDocs, coFed, coCalls, coOverlap>>
    /\ UNCHANGED <<extractVars, cleanVars, analyzeVars, hdrVars, rangeVars, renderVars>>

NextPair == \E c \in 1..2 : CoDeliver(c) \/ CoSettled(c)

SpecPair == InitPair /\ [][NextPair]_vars

\* C15: two extractions of different documents whose callbacks interleave in any
\* order each build the state and return the text and page count (or the error) they
\* would alone: nothing of the reassembly or of the filter is shared between them.
C15_ConcurrentExtractionsIndependent ==
    \A c \in DOMAIN coCalls :
        /\ coCalls[c] = Reassemble(NewReassembly, SubSeq(coDocs[c], 1, coFed[c]))
        /\ coResults[c].kind # "none" => coResults[c] = extractTextFromPdf(coDocs[c])

\* both calls have returned different texts after their callbacks interleaved
C15_Witness ==
    /\ coOverlap
    /\ coDocs # <<>>
    /\ coDocs[1] # coDocs[2]
    /\ coResults[1].kind = "ok"
    /\ coResults[2].kind = "ok"
    /\ coResults[1].text # <<>>
    /\ coResults[1].pages = 2
    /\ coResults[2].text = <<>>
    /\ coResults[2].pages = 1
    /\ Len(coDocs[2]) > 1

---------------------------------------------------------------------------
(* systemPrompt: the rules that decide whether a value is EN DEHORS        *)

Num3 == <<"3">>
Num3c0 == <<"3", ",", "0">>
Num3p5 == <<"3", ".", "5">>
Num3c5 == <<"3", ",", "5">>
Num4c99 == <<"4", ",", "9", "9">>
Num5 == <<"5">>
Num5c0 == <<"5", ",", "0">>
Num5p01 == <<"5", ".", "0", "1">>
Num10 == <<"1", "0">>

\* the numbers as a report writes them
NumberTexts == {Num3, Num3c0, Num3p5, Num3c5, Num4c99, Num5, Num5c0, Num5p01, Num10}

\* "Remplace les points par des virgules pour uniformiser (ex: 1.15 -> 1,15)"
UniformDecimal(t) == ReplaceChar(t, ".", ",")

\* "convertis en float pour comparaison (ex: '1,15' -> 1.15 en interne)": the number
\* in hundredths, for texts of at most two decimals
ParseNumber(t) ==
    LET parts == Split(UniformDecimal(t), <<",">>)
        frac == IF Len(parts) > 1 THEN parts[2] ELSE <<>>
    IN  IntOf(parts[1]) * 100 + IntOf(SubSeq(frac \o <<"0", "0">>, 1, 2))

\* the reference intervals as a report writes them: "L - U", "< X", "> X", "Inf à X",
\* or nothing that reads as an interval
References ==
    {[form |-> "range", lower |-> p[1], upper |-> p[2]] :
         p \in {q \in NumberTexts \X NumberTexts : ParseNumber(q[1]) <= ParseNumber(q[2])}}
        \cup {[form |-> f, bound |-> x] : f \in {"< X", "> X", "Inf à X"}, x \in NumberTexts}
        \cup {[form |-> "none"]}

\* "limite inférieure" of an interval written "L - U", <<>> for the other references
LowerLimit(ref) == IF ref.form = "range" THEN <<ParseNumber(ref.lower)>> ELSE <<>>

\* "limite supérieure" of an interval written "L - U", <<>> for the other references
UpperLimit(ref) == IF ref.form = "range" THEN <<ParseNumber(ref.upper)>> ELSE <<>>

\* mutant of EnDehors: a value on a limit counts as outside it
EnDehorsOnLimit(value, ref) ==
    LET v == ParseNumber(value)
    IN  \/ LowerLimit(ref) # <<>> /\ v <= LowerLimit(ref)[1]
        \/ UpperLimit(ref) # <<>> /\ v >= UpperLimit(ref)[1]
        \/ ref.form = "< X" /\ v >= ParseNumber(ref.bound)
        \/ ref.form = "> X" /\ v <= ParseNumber(ref.bound)
        \/ ref.form = "Inf à X" /\ v > ParseNumber(ref.bound)

\* mutant of EnDehors: the one-sided references compared strictly
EnDehorsStrictOneSided(value, ref) ==
    LET v == ParseNumber(value)
    IN  \/ LowerLimit(ref) # <<>> /\ v < LowerLimit(ref)[1]
        \/ UpperLimit(ref) # <<>> /\ v > UpperLimit(ref)[1]
        \/ ref.form = "< X" /\ v > ParseNumber(ref.bound)
        \/ ref.form = "> X" /\ v < ParseNumber(ref.bound)
        \/ ref.form = "Inf à X" /\ v > ParseNumber(ref.bound)

\* mutant of EnDehors: "Inf à X" read as "< X"
EnDehorsInfAsLess(value, ref) ==
    LET v == ParseNumber(value)
    IN  \/ LowerLimit(ref) # <<>> /\ v < LowerLimit(ref)[1]
        \/ UpperLimit(ref) # <<>> /\ v > UpperLimit(ref)[1]
        \/ ref.form = "< X" /\ v >= ParseNumber(ref.bound)
        \/ ref.form = "> X" /\ v <= ParseNumber(ref.bound)
        \/ ref.form = "Inf à X" /\ v >= ParseNumber(ref.bound)

\* mutant of EnDehors: an analysis without a clear interval counts as outside
EnDehorsWithoutInterval(value, ref) ==
    LET v == ParseNumber(value)
    IN  \/ ref.form = "none"
        \/ LowerLimit(ref) # <<>> /\ v < LowerLimit(ref)[1]
        \/ UpperLimit(ref) # <<>> /\ v > UpperLimit(ref)[1]
        \/ ref.form = "< X" /\ v >= ParseNumber(ref.bound)
        \/ ref.form = "> X" /\ v <= ParseNumber(ref.bound)
        \/ ref.form = "Inf à X" /\ v > ParseNumber(ref.bound)

\* "Une valeur est EN DEHORS si :" and its five cases
EnDehors(value, ref) ==
    LET v == ParseNumber(value)
    IN  \/ LowerLimit(ref) # <<>> /\ v < LowerLimit(ref)[1]
        \/ UpperLimit(ref) # <<>> /\ v > UpperLimit(ref)[1]
        \/ ref.form = "< X" /\ v >= ParseNumber(ref.bound)
        \/ ref.form = "> X" /\ v <= ParseNumber(ref.bound)
        \/ ref.form = "Inf à X" /\ v > ParseNumber(ref.bound)

InitRange ==
    /\ rgValue \in NumberTexts
    /\ rgRef \in References
    /\ rgStatus = ""
    /\ ExtractIdle
    /\ CleanIdle
    /\ AnalyzeIdle
    /\ HdrIdle
    /\ CoIdle
    /\ RenderIdle

\* the rules applied to one analysis: EN DEHORS, or else "dans les repères", which is
\* also what an analysis without a clear interval gets
Classify ==
    /\ rgStatus = ""
    /\ rgStatus' = IF EnDehors(rgValue, rgRef) THEN "EN DEHORS" ELSE "DANS"
    /\ UNCHANGED <<rgValue, rgRef, extractVars, cleanVars, analyzeVars, hdrVars, coVars, renderVars>>

NextRange == Classify

SpecRange == InitRange /\ [][NextRange]_vars

\* what each number text denotes, in hundredths, read off the text by hand
Hundredths ==
    [t \in NumberTexts |->
        CASE t = Num3 -> 300
          [] t = Num3c0 -> 300
          [] t = Num3p5 -> 350
          [] t = Num3c5 -> 350
          [] t = Num4c99 -> 499
          [] t = Num5 -> 500
          [] t = Num5c0 -> 500
          [] t = Num5p01 -> 501
          [] t = Num10 -> 1000]

---------------------------------------------------------------------------
(* extractTextFromPdf: what the reassembled text holds                     *)

\* the words of the text the reassembler holds so far: the page strings and the
\* lines of the page being built, in order
HeldWords(ps, cp) == Tokens(Join(ps \o cp, NL))

\* the callback has just been given an item that is not an error while the promise
\* was pending
StreamStep == nItems' = nItems + 1 /\ lastItem'.type # "err" /\ promise.state = "pending"

\* C23: for a stream that ends without error the raw text holds the trimmed text of
\* every non-empty fragment exactly once and in stream order: each fragment adds
\* its words at the end of what is held, no other item adds, drops or moves a word,
\* and end-of-stream resolves with all the words held, those of the page still being
\* built included.
C23_EveryFragmentOnceInOrder ==
    /\ [][(StreamStep /\ lastItem'.type = "text") =>
            HeldWords(pages', currentPage')
                = HeldWords(pages, currentPage) \o Tokens(lastItem'.text)]_vars
    /\ [][(StreamStep /\ lastItem'.type \in {"page", "other"}) =>
            HeldWords(pages', currentPage') = HeldWords(pages, currentPage)]_vars
    /\ [][(StreamStep /\ lastItem'.type = "end") =>
            /\ promise'.state = "resolved"
            /\ Tokens(promise'.value) = HeldWords(pages, currentPage)]_vars

\* two pages of one fragment each; end-of-stream came while the second was being built
C23_Witness ==
    /\ lastItem = [type |-> "end", after |-> "text"]
    /\ Len(pages) = 2
    /\ promise = [state |-> "resolved", value |-> Join(pages, NLNL)]
    /\ Tokens(promise.value) = Tokens(FragNa) \o Tokens(FragPage1)

\* C24: any two fragments placed on the same reconstructed line have quantized
\* vertical positions Math.round(y * 10) that differ by at most 4: a line never
\* spans more than one vertical band.
C24_LineWithinOneBand ==
    lineBand # <<>> => lineBand[2] - lineBand[1] <= 4

---------------------------------------------------------------------------
(* appendResultsToPdf: the loop over the lines of the analysis text        *)

MaxRenderLines == 3

\* the five renderers, by the source file and the line each begins at
Renderers == {"server.js:197", "server.js:1115", "part_000", "part_001", "part_002"}

IsServerJs(b) == b \in {"server.js:197", "server.js:1115"}

\* const { width, height } = page.getSize(): the size of the added page, here a page
\* that a few rows of text fill
PageWidth == 200
PageHeight == 405

\* const margin
Margin(b) == IF IsServerJs(b) THEN 55 ELSE 50

\* const maxWidth = width - margin * 2
MaxWidth(b) == PageWidth - Margin(b) * 2

\* the page-break threshold: y < margin + 100, currentY < margin + 80 in part_000
BreakThreshold(b) == Margin(b) + (IF b = "part_000" THEN 80 ELSE 100)

\* the cursor after a page break: y = height - margin - 20, currentY = height - margin
TopOfPage(b) == IF IsServerJs(b) THEN PageHeight - Margin(b) - 20 ELSE PageHeight - Margin(b)

\* the cursor when the loop begins: height - 140 less what the title blocks take
StartY(b) ==
    IF IsServerJs(b) THEN PageHeight - 140 - 50 - 60
    ELSE IF b = "part_000" THEN PageHeight - 140 - 30 - 40
    ELSE PageHeight - 140 - 30 - 50

\* lineHeight, and the 16 of "y -= 16"
LineHeight == 16

\* an empty line: y -= 8, currentY -= lineHeight * 0.5
BlankStep == 8

\* font.widthOfTextAtSize(text, size), every character taken as half an em wide
WidthOfTextAtSize(text, size) == (Len(text) * size) \div 2

\* String.prototype.includes
Includes(s, lit) == IndexOf(s, lit) # 0

\* [A-ZÉÈÊ]
UpperAccent == UpperAZ \cup {"É", "È", "Ê"}

\* the character U+2022 that begins a bullet line, one element of a string as every
\* character is
Bullet == "U+2022"

LitVue == <<"V", "u", "e">>
LitNombre == <<"N", "o", "m", "b", "r", "e">>
LitCategories == <<"C", "a", "t", "é", "g", "o", "r", "i", "e", "s">>
LitDEHORS == <<"D", "E", "H", "O", "R", "S">>
LitREPERES == <<"R", "E", "P", "È", "R", "E", "S">>
LitDANS == <<"D", "A", "N", "S">>
LitRECAPITULATIF == <<"R", "É", "C", "A", "P", "I", "T", "U", "L", "A", "T", "I", "F">>
LitRECAPITULATIFPlain == <<"R", "E", "C", "A", "P", "I", "T", "U", "L", "A", "T", "I", "F">>
LitDashes == <<"-", "-", "-">>
LitEquals == <<"=", "=", "=", "=">>
LitQuEst == <<"q", "u", "'", "e", "s", "t">>
LitQUESTCE == <<"Q", "U", "'", "E", "S", "T", "-", "C", "E">>

\* the alternatives of the value-label pattern, in upper case for the i flag
ValueLabelsCI ==
    {<<"V", "O", "T", "R", "E">>,
     <<"R", "E", "P", "È", "R", "E", "S">>,
     <<"P", "O", "S", "I", "T", "I", "O", "N">>,
     <<"Q", "U", "'", "E", "S", "T", "-", "C", "E">>,
     <<"N", "O", "M", "B", "R", "E">>,
     <<"V", "A", "L", "E", "U", "R", "S">>,
     <<"C", "A", "T", "É", "G", "O", "R", "I", "E", "S">>}

TxtDans == <<"2", ".", " ", "V", "A", "L", "E", "U", "R", "S", " ", "D", "A", "N", "S", " ",
    "L", "E", "S", " ", "R", "E", "P", "È", "R", "E", "S", " ", "H", "A", "B", "I", "T", "U",
    "E", "L", "S">>
TxtBullet == <<Bullet, " ", "F", "e", "r", " ", ":", " ", "1", "2", " ", "µ", "g", "/", "L">>
TxtDouble == <<"H", "é", "m", "o", "g", "l", "o", "b", "i", "n", "e", " ", "g", "l", "y", "q",
    "u", "é", "e", "s", " ", " ", "n", "o", "r", "m", "a", "l", "e">>
TxtRule == <<"=", "=", "=", "=">>

\* lines of a results text: the template's header of the second section, a result, a
\* sentence with two spaces in a row, a rule, an empty line
RenderLines == {TxtDans, TxtBullet, TxtDouble, TxtRule, <<>>}

\* /^\d+\.\s+[A-ZÉÈÊ]/
IsSectionHeader(line) ==
    LET ws == RunEnd1(line, ThenLit(line, RunEnd1(line, 1, Digits), <<".">>), WhiteSpace)
    IN  ws # 0 /\ ws <= Len(line) /\ line[ws] \in UpperAccent

\* line.startsWith(U+2022) || line.startsWith('*') || line.startsWith('-')
IsBullet(line) == line # <<>> /\ line[1] \in {Bullet, "*", "-"}

\* /^[A-ZÉÈÊ].*:$/ and not a line beginning with Vue, Nombre or Catégories
IsCategoryLabel(line) ==
    /\ Len(line) >= 2 /\ line[1] \in UpperAccent /\ line[Len(line)] = ":"
    /\ ~StartsWith(line, LitVue) /\ ~StartsWith(line, LitNombre)
    /\ ~StartsWith(line, LitCategories)

\* /^(Votre|Repères|Position|Qu'est-ce|Nombre|Valeurs|Catégories)/i and a ':'
IsValueLabel(line) ==
    /\ \E LIT \in ValueLabelsCI : StartsWithCI(line, LIT)
    /\ Includes(line, <<":">>)

\* the section flags after a section header: the first renderer of server.js looks
\* for DEHORS, the second for DEHORS or REPÈRES
SectionAfter(b, sec, line) ==
    LET num == [sec EXCEPT !.sectionNum = @ + 1]
    IN  IF Includes(line, LitDEHORS) \/ (b = "server.js:1115" /\ Includes(line, LitREPERES))
        THEN [num EXCEPT !.inAbnormal = TRUE, !.inNormal = FALSE, !.inRecap = FALSE]
        ELSE IF Includes(line, LitDANS)
        THEN [num EXCEPT !.inAbnormal = FALSE, !.inNormal = TRUE, !.inRecap = FALSE]
        ELSE IF Includes(line, LitRECAPITULATIF) \/ Includes(line, LitRECAPITULATIFPlain)
        THEN [num EXCEPT !.inAbnormal = FALSE, !.inNormal = FALSE, !.inRecap = TRUE]
        ELSE num

\* iconType of a section header
SectionIcon(b, line) ==
    IF Includes(line, LitDEHORS) \/ (b = "server.js:1115" /\ Includes(line, LitREPERES))
    THEN "alert"
    ELSE IF Includes(line, LitDANS) THEN "check"
    ELSE IF Includes(line, LitRECAPITULATIF) \/ Includes(line, LitRECAPITULATIFPlain)
    THEN "info"
    ELSE "none"

\* the style the renderers of server.js give the line at index i (0-based), and the
\* text left of it to draw
ServerStyle(b, sec, line, i) ==
    IF IsSectionHeader(line)
    THEN [line |-> line, textSize |-> 15, leftPad |-> 40, extraSpace |-> 20,
          drawBox |-> FALSE, iconType |-> SectionIcon(b, line)]
    ELSE IF StartsWith(line, LitDashes)
    THEN [line |-> DropWS(SubSeq(line, 4, Len(line))), textSize |-> 12, leftPad |-> 18,
          extraSpace |-> 15, drawBox |-> FALSE, iconType |-> "none"]
    ELSE IF IsBullet(line)
    THEN LET rest == DropWS(SubSeq(line, 2, Len(line)))
         IN  IF sec.inAbnormal
             THEN [line |-> rest,
                   textSize |-> IF Includes(rest, <<":">>)
                                    /\ ~Includes([k \in 1..Len(rest) |-> ToLower(rest[k])], LitQuEst)
                                THEN 11 ELSE 10,
                   leftPad |-> 25, extraSpace |-> 0, drawBox |-> TRUE, iconType |-> "alert"]
             ELSE [line |-> rest, textSize |-> 10, leftPad |-> 25, extraSpace |-> 0,
                   drawBox |-> FALSE,
                   iconType |-> IF sec.inNormal THEN "check" ELSE "bullet"]
    ELSE IF IsCategoryLabel(line)
    THEN [line |-> line, textSize |-> 10, leftPad |-> 15, extraSpace |-> 10,
          drawBox |-> FALSE, iconType |-> "none"]
    ELSE IF IsValueLabel(line)
    THEN [line |-> line, textSize |-> 9, leftPad |-> 30,
          extraSpace |-> IF StartsWithCI(line, LitQUESTCE) THEN 5 ELSE 0,
          drawBox |-> FALSE, iconType |-> "none"]
    ELSE IF i > 0 /\ ~(Len(line) >= 2 /\ line[1] \in UpperAccent /\ line[2] \in UpperAccent)
    THEN [line |-> line, textSize |-> 9, leftPad |-> 30, extraSpace |-> 0,
          drawBox |-> FALSE, iconType |-> "none"]
    ELSE [line |-> line, textSize |-> 10, leftPad |-> 0, extraSpace |-> 0,
          drawBox |-> FALSE, iconType |-> "none"]

\* part_000, part_001, part_002: a short line with a ':' that is no bullet is a
\* section header (sectionSize 14, extraSpacing 5), any other line is plain (fontSize 10)
PartStyle(line) ==
    IF Includes(line, <<":">>) /\ Len(line) < 80 /\ ~StartsWith(line, <<Bullet>>)
    THEN [line |-> line, textSize |-> 14, leftPad |-> 0, extraSpace |-> 5,
          drawBox |-> FALSE, iconType |-> "none"]
    ELSE [line |-> line, textSize |-> 10, leftPad |-> 0, extraSpace |-> 0,
          drawBox |-> FALSE, iconType |-> "none"]

StyleOf(b, sec, line, i) == IF IsServerJs(b) THEN ServerStyle(b, sec, line, i) ELSE PartStyle(line)

\* pdfDoc.addPage() at a page break and what the renderer does with the new page:
\* server.js and part_002 assign it to page, part_000 keeps it in newPage and goes on
\* drawing on page; the cursor goes back to the top
NewPage(b, st) ==
    [st EXCEPT !.pageCount = @ + 1,
               !.page = IF b = "part_000" THEN @ ELSE st.pageCount + 1,
               !.y = TopOfPage(b)]

\* page.drawText(currentLine, { x, y, ... }) and the step down that follows it; the row
\* is kept with the page it went to and the number of pages the document had then
DrawRow(st, i, step) ==
    [st EXCEPT !.rows = Append(@, [line |-> i, page |-> st.page, pageCount |-> st.pageCount,
                                   y |-> st.y, text |-> st.cur]),
               !.y = @ - step]

\* mutant of WrapWord: the word that does not fit is not carried to the next row
WrapWordDropsWord(b, style, st, i, word) ==
    LET testLine == IF st.cur # <<>> THEN st.cur \o SP \o word ELSE word
    IN  IF WidthOfTextAtSize(testLine, style.textSize) > MaxWidth(b) - style.leftPad
           /\ st.cur # <<>>
        THEN LET drawn == DrawRow(st, i, LineHeight)
                 next == IF b \in {"server.js:197", "server.js:1115", "part_000"}
                            /\ drawn.y < BreakThreshold(b)
                         THEN NewPage(b, drawn) ELSE drawn
             IN  [next EXCEPT !.cur = <<>>]
        ELSE [st EXCEPT !.cur = testLine]

\* one turn of "for (const word of words)": the row is drawn when the word does not
\* fit and the row is not empty; server.js and part_000 then test the cursor against
\* the threshold, part_001 and part_002 do not
WrapWord(b, style, st, i, word) ==
    LET testLine == IF st.cur # <<>> THEN st.cur \o SP \o word ELSE word
    IN  IF WidthOfTextAtSize(testLine, style.textSize) > MaxWidth(b) - style.leftPad
           /\ st.cur # <<>>
        THEN LET drawn == DrawRow(st, i, LineHeight)
                 next == IF b \in {"server.js:197", "server.js:1115", "part_000"}
                            /\ drawn.y < BreakThreshold(b)
                         THEN NewPage(b, drawn) ELSE drawn
             IN  [next EXCEPT !.cur = word]
        ELSE [st EXCEPT !.cur = testLine]

RECURSIVE WrapWords(_, _, _, _, _)
\* the loop over words = line.split(' ')
WrapWords(b, style, st, i, words) ==
    IF words = <<>> THEN st
    ELSE WrapWords(b, style, WrapWord(b, style, st, i, Head(words)), i, Tail(words))

\* word wrap and render: the rows of one line, then "if (currentLine)" the last row
\* and the step down by 16 + extraSpace
RenderText(b, style, st, i) ==
    LET wrapped == WrapWords(b, style, [st EXCEPT !.cur = <<>>], i, Split(style.line, SP))
    IN  IF wrapped.cur # <<>>
        THEN DrawRow(wrapped, i, LineHeight + style.extraSpace)
        ELSE wrapped

\* the results texts the language model returns, as lines
RenderTexts == UNION {[1..n -> RenderLines] : n \in 1..MaxRenderLines}

InitRender ==
    /\ rdBuild \in Renderers
    /\ rdLines \in RenderTexts
    /\ rdNext = 0
    /\ rdY = StartY(rdBuild)
    /\ rdPage = 1
    /\ rdPageCount = 1
    /\ rdSection = [sectionNum |-> 0, inAbnormal |-> FALSE, inNormal |-> FALSE, inRecap |-> FALSE]
    /\ rdShapes = <<>>
    /\ rdRows = <<>>
    /\ rdPc = "loop"
    /\ ExtractIdle
    /\ CleanIdle
    /\ AnalyzeIdle
    /\ HdrIdle
    /\ CoIdle
    /\ RangeIdle

\* let line = lines[i].trim() of the line the loop is at
CurrentLine == Trim(rdLines[rdNext + 1])

\* if (!line) { y -= 8; continue; }
RenderBlankLine ==
    /\ rdPc = "loop"
    /\ rdNext < Len(rdLines)
    /\ CurrentLine = <<>>
    /\ rdY' = rdY - BlankStep
    /\ rdNext' = rdNext + 1
    /\ UNCHANGED <<rdBuild, rdLines, rdPage, rdPageCount, rdSection, rdShapes, rdRows, rdPc>>
    /\ UNCHANGED <<extractVars, cleanVars, analyzeVars, hdrVars, coVars, rangeVars>>

\* part_001 at a page break: pdfDoc.addPage(), the cursor reset, then "page = newPage"
\* on the const page throws TypeError and the function is left
RenderThrows ==
    /\ rdPc = "loop"
    /\ rdNext < Len(rdLines)
    /\ CurrentLine # <<>>
    /\ rdBuild = "part_001"
    /\ rdY < BreakThreshold(rdBuild)
    /\ rdPageCount' = rdPageCount + 1
    /\ rdY' = TopOfPage(rdBuild)
    /\ rdPc' = "thrown"
    /\ UNCHANGED <<rdBuild, rdLines, rdNext, rdPage, rdSection, rdShapes, rdRows>>
    /\ UNCHANGED <<extractVars, cleanVars, analyzeVars, hdrVars, coVars, rangeVars>>

\* one turn of the loop for a line that is not empty: the page break when the cursor
\* is below the threshold, server.js's skip of lines holding '====', the style, the
\* box and icon, the rows
RenderLine ==
    /\ rdPc = "loop"
    /\ rdNext < Len(rdLines)
    /\ CurrentLine # <<>>
    /\ ~(rdBuild = "part_001" /\ rdY < BreakThreshold(rdBuild))
    /\ LET here == [y |-> rdY, page |-> rdPage, pageCount |-> rdPageCount,
                    rows |-> rdRows, cur |-> <<>>]
           top == IF rdY < BreakThreshold(rdBuild) THEN NewPage(rdBuild, here) ELSE here
           style == StyleOf(rdBuild, rdSection, CurrentLine, rdNext)
           skipped == IsServerJs(rdBuild) /\ Includes(CurrentLine, LitEquals)
           drawn == IF skipped THEN top ELSE RenderText(rdBuild, style, top, rdNext)
       IN  /\ rdY' = drawn.y
           /\ rdPage' = drawn.page
           /\ rdPageCount' = drawn.pageCount
           /\ rdRows' = drawn.rows
           /\ rdSection' = IF ~skipped /\ IsServerJs(rdBuild) /\ IsSectionHeader(CurrentLine)
                           THEN SectionAfter(rdBuild, rdSection, CurrentLine)
                           ELSE rdSection
           /\ rdShapes' = IF ~skipped /\ (style.drawBox \/ style.iconType # "none")
                          THEN Append(rdShapes, [line |-> rdNext, page |-> top.page, y |-> top.y,
                                                 drawBox |-> style.drawBox,
                                                 iconType |-> style.iconType])
                          ELSE rdShapes
    /\ rdNext' = rdNext + 1
    /\ UNCHANGED <<rdBuild, rdLines, rdPc>>
    /\ UNCHANGED <<extractVars, cleanVars, analyzeVars, hdrVars, coVars, rangeVars>>

\* the cursor moves down to the disclaimer: y -= 50, currentY -= 30
DisclaimerStep(b) == IF IsServerJs(b) THEN 50 ELSE 30

\* the disclaimer goes to a new page when the cursor is below margin + 140 in
\* server.js, 150 in part_000, margin + 100 in part_002; part_001 does not look
NeedsDisclaimerPage(b, y) ==
    IF IsServerJs(b) THEN y < Margin(b) + 140
    ELSE IF b = "part_000" THEN y < 150
    ELSE IF b = "part_002" THEN y < Margin(b) + 100
    ELSE FALSE

\* the loop is over: the cursor moves down and the disclaimer box and the footer
\* are drawn, on a new page when there is no room left
RenderDisclaimer ==
    /\ rdPc = "loop"
    /\ rdNext = Len(rdLines)
    /\ LET here == [y |-> rdY - DisclaimerStep(rdBuild), page |-> rdPage,
                    pageCount |-> rdPageCount]
           at == IF NeedsDisclaimerPage(rdBuild, here.y) THEN NewPage(rdBuild, here) ELSE here
       IN  /\ rdY' = at.y
           /\ rdPage' = at.page
           /\ rdPageCount' = at.pageCount
    /\ rdPc' = "done"
    /\ UNCHANGED <<rdBuild, rdLines, rdNext, rdSection, rdShapes, rdRows>>
    /\ UNCHANGED <<extractVars, cleanVars, analyzeVars, hdrVars, coVars, rangeVars>>

NextRender == RenderBlankLine \/ RenderThrows \/ RenderLine \/ RenderDisclaimer

SpecRender == InitRender /\ [][NextRender]_vars


---------------------------------------------------------------------------
(* appendResultsToPdf: sections, page breaks and word wrap                 *)

\* the step of the loop over a line that is not empty and is drawn
DrawsLine ==
    /\ rdPc = "loop"
    /\ rdNext < Len(rdLines)
    /\ CurrentLine # <<>>
    /\ rdNext' = rdNext + 1

\* the rows a step adds
NewRows == SubSeq(rdRows', Len(rdRows) + 1, Len(rdRows'))

\* a numbered section header that contains 'DANS' and not 'DEHORS'
IsNormalHeader(line) ==
    IsSectionHeader(line) /\ Includes(line, LitDANS) /\ ~Includes(line, LitDEHORS)

\* the lines before index n (0-based) hold a section header, and the last of them
\* is a header of the values inside the usual range
UnderNormalHeader(lines, n) ==
    \E j \in 1..n :
        /\ IsNormalHeader(Trim(lines[j]))
        /\ \A k \in (j + 1)..n : ~IsSectionHeader(Trim(lines[k]))

\* C27: in both renderers of server.js, after a numbered section header that
\* contains 'DANS' and not 'DEHORS' inNormal is true and inAbnormal is false, and a
\* bullet line that follows such a header is never drawn with the red box or the
\* alert icon.
C27_NormalSectionBulletsNotBoxed ==
    /\ [][IsServerJs(rdBuild) /\ DrawsLine /\ IsNormalHeader(CurrentLine)
            => rdSection'.inNormal /\ ~rdSection'.inAbnormal]_vars
    /\ [][IsServerJs(rdBuild) /\ DrawsLine /\ IsBullet(CurrentLine)
              /\ UnderNormalHeader(rdLines, rdNext)
            => /\ rdShapes' # <<>>
               /\ ~rdShapes'[Len(rdShapes')].drawBox
               /\ rdShapes'[Len(rdShapes')].iconType # "alert"]_vars

\* C28: in the renderers of part_000, part_001 and server.js, when the cursor is
\* below the threshold before a line that is not empty, a page is added, the cursor
\* goes back to the top of the page and no error is raised; and every row is drawn
\* on the page that was the newest when it was drawn.
C28_PageBreakMovesToNewPage ==
    /\ [][rdBuild # "part_002" /\ rdPc = "loop" /\ rdNext < Len(rdLines)
              /\ CurrentLine # <<>> /\ rdY < BreakThreshold(rdBuild)
            => /\ rdPc' # "thrown"
               /\ rdPageCount' > rdPageCount
               /\ NewRows # <<>> => NewRows[1].y = TopOfPage(rdBuild)]_vars
    /\ [](rdBuild # "part_002" =>
            \A k \in 1..Len(rdRows) : rdRows[k].page = rdRows[k].pageCount)

\* C29: in the renderers of server.js and part_002 every row of text, the
\* continuation rows of a wrapped line among them, is drawn at a y that is not
\* below the threshold margin + 100.
C29_NoRowBelowThreshold ==
    (IsServerJs(rdBuild) \/ rdBuild = "part_002") =>
        \A k \in 1..Len(rdRows) : rdRows[k].y >= Margin(rdBuild) + 100

\* the words of a text: what lies between its spaces
Words(text) == SelectSeq(Split(text, SP), LAMBDA w : w # <<>>)

\* C30: the word wrap of server.js and part_002 loses and reorders nothing: the rows
\* drawn for a line, joined by single spaces in the order drawn, hold the words of
\* the line's text in their order, whole; and a row is wider than the width left
\* for it only when it is a single word.
C30_WrapKeepsEveryWord ==
    [][(IsServerJs(rdBuild) \/ rdBuild = "part_002") /\ DrawsLine
          /\ ~(IsServerJs(rdBuild) /\ Includes(CurrentLine, LitEquals))
        => LET style == StyleOf(rdBuild, rdSection, CurrentLine, rdNext)
               texts == [k \in 1..Len(NewRows) |-> NewRows[k].text]
           IN  /\ Words(Join(texts, SP)) = Words(style.line)
               /\ \A k \in 1..Len(texts) :
                      WidthOfTextAtSize(texts[k], style.textSize)
                              > MaxWidth(rdBuild) - style.leftPad
                          => Len(Split(texts[k], SP)) = 1]_vars

\* a line was wrapped into several rows, one of them of several words, one of them a
\* single word, in a text with two spaces in a row
C30_Witness ==
    /\ IsServerJs(rdBuild) \/ rdBuild = "part_002"
    /\ \E i \in 1..Len(rdLines) : Trim(rdLines[i]) = TxtDouble
    /\ \E j, k \in 1..Len(rdRows) :
        /\ j < k
        /\ rdRows[j].line = rdRows[k].line
        /\ Len(Words(rdRows[j].text)) >= 2
        /\ Len(Words(rdRows[k].text)) = 1
        /\ Trim(rdLines[rdRows[j].line + 1]) = TxtDouble
=============================================================================
